---------------------------- MODULE Spec2Model ----------------------------
(***************************************************************************)
(* Model of the ingestion pipeline of the stock screener                   *)
(* (backend/ingestion.py, backend/models.py): the Statement Store (income  *)
(* statements and key metrics), the Snapshot Store (screener_data), the    *)
(* snapshot composer compute_screener_data, the full ingestion pass and    *)
(* the incremental quote update.                                           *)
(*                                                                         *)
(* Numbers.  Column values are Python floats or None.  A value is a record *)
(* [k, n, d]: k = "null" is None, k = "num" is the rational n/d in lowest  *)
(* terms (d > 0), k = "root3m1" is the real (n/d)^(1/3) - 1 for n/d > 0,   *)
(* k = "complex" is the complex number Python yields for a negative base   *)
(* raised to 1/3.  Float rounding is not modelled.                         *)
(***************************************************************************)
EXTENDS Integers, Sequences, FiniteSets, TLC

(***************************************************************************)
(* Bounds of the model.                                                    *)
(***************************************************************************)
MaxVal == 1
MaxPeriods == 4
MaxClock == 3
MaxSeries == 7
MaxItems == 2

(***************************************************************************)
(* Values and arithmetic.                                                  *)
(***************************************************************************)
NULL == [k |-> "null", n |-> 0, d |-> 1]

Abs(i) == IF i < 0 THEN -i ELSE i

RECURSIVE GCD(_, _)
GCD(a, b) == IF b = 0 THEN a ELSE GCD(b, a % b)

Norm(n, d) ==
    LET s == IF d < 0 THEN -1 ELSE 1
        g == GCD(Abs(n), Abs(d))
    IN  [k |-> "num", n |-> (s * n) \div g, d |-> (s * d) \div g]

Num(i) == [k |-> "num", n |-> i, d |-> 1]

IsNone(v) == v.k = "null"

\* Python truthiness of a float-or-None: None and 0 are falsy.
Truthy(v) == v.k # "null" /\ ~(v.k = "num" /\ v.n = 0)

NotZero(v) == ~(v.k = "num" /\ v.n = 0)

Positive(v) == v.k = "num" /\ v.n > 0

VAdd(a, b) == Norm(a.n * b.d + b.n * a.d, a.d * b.d)

VSub(a, b) == Norm(a.n * b.d - b.n * a.d, a.d * b.d)

VAbs(a) == [a EXCEPT !.n = Abs(a.n)]

VDiv(a, b) == Norm(a.n * b.d, a.d * b.n)

\* x ** (1 / 3) - 1 as Python evaluates it.
CubeRootMinusOne(x) ==
    IF x.n > 0 THEN [k |-> "root3m1", n |-> x.n, d |-> x.d]
    ELSE IF x.n = 0 THEN Num(-1)
    ELSE [k |-> "complex", n |-> x.n, d |-> x.d]

Min(a, b) == IF a < b THEN a ELSE b

RECURSIVE SumSeq(_)
SumSeq(s) == IF s = <<>> THEN Num(0) ELSE VAdd(Head(s), SumSeq(Tail(s)))

RECURSIVE Cleaned(_)
Cleaned(s) ==
    IF s = <<>> THEN <<>>
    ELSE IF IsNone(Head(s)) THEN Cleaned(Tail(s))
    ELSE <<Head(s)>> \o Cleaned(Tail(s))

safe_avg(values) ==
    LET cleaned == Cleaned(values)
    IN  IF cleaned # <<>> THEN VDiv(SumSeq(cleaned), Num(Len(cleaned))) ELSE NULL

\* Faulty variant: a current value of zero is taken for a missing one.
pct_vs_avg_truthy(current, avg) ==
    IF Truthy(current) /\ ~IsNone(avg) /\ NotZero(avg)
    THEN VDiv(VSub(current, avg), VAbs(avg))
    ELSE NULL

pct_vs_avg(current, avg) ==
    IF ~IsNone(current) /\ ~IsNone(avg) /\ NotZero(avg)
    THEN VDiv(VSub(current, avg), VAbs(avg))
    ELSE NULL

\* Python's `a or b` on float-or-None operands.
PyOr(a, b) == IF Truthy(a) THEN a ELSE b


(***************************************************************************)
(* State.  The four tables are sets of rows (records); clock is the value  *)
(* datetime.now() returns next; pc, queue, idx are the position of the     *)
(* full ingestion pass; in_income, in_metrics, out, done are the inputs    *)
(* and the result of one isolated composition; session is what the session *)
(* of a composition that has not committed yet holds; in_stocks and        *)
(* in_quotes are the provider's answer to one isolated ingest_stock_list   *)
(* and run_incremental_update; threads is the position, in                 *)
(* run_full_ingestion, of each thread that runs it.  lastOp (the           *)
(* operation that ran last and what it did) and outcome (how the loop body *)
(* of the pass ended for each company since the last stock list refresh)   *)
(* record the history the properties speak of.                             *)
(***************************************************************************)
VARIABLES companies, income_statements, key_metrics, screener_data,
          ingestion_progress, clock, pc, queue, idx, lastOp, outcome,
          in_income, in_metrics, in_stocks, in_quotes, threads, out, done, session

storeVars == <<companies, income_statements, key_metrics, screener_data>>
passVars == <<ingestion_progress, pc, queue, idx>>
pureVars == <<in_income, in_metrics, in_stocks, in_quotes, threads, out, done, session>>
vars == <<companies, income_statements, key_metrics, screener_data,
          ingestion_progress, clock, pc, queue, idx, lastOp, outcome,
          in_income, in_metrics, in_stocks, in_quotes, threads, out, done, session>>

(***************************************************************************)
(* Queries of compute_screener_data.                                       *)
(***************************************************************************)
RECURSIVE OrderByDateDesc(_)
OrderByDateDesc(rows) ==
    IF rows = {} THEN <<>>
    ELSE LET r == CHOOSE x \in rows : \A y \in rows : y.date <= x.date
         IN  <<r>> \o OrderByDateDesc(rows \ {r})

AnnualIncome(stmts, company_id) ==
    OrderByDateDesc({s \in stmts : s.company_id = company_id /\ s.period = "annual"})

AnnualMetrics(metrics, company_id) ==
    OrderByDateDesc({m \in metrics : m.company_id = company_id /\ m.period = "annual"})

\* .first(): the first row or None (the empty sequence stands for None).
First(s) == IF s = <<>> THEN <<>> ELSE <<s[1]>>

\* Faulty variant: the window of the averages starts at the most recent period.
HistoricalFromLatest(s) == SubSeq(s, 1, Min(Len(s), 5))

\* .offset(1).limit(5).all()
Historical(s) == SubSeq(s, 2, Min(Len(s), 6))

\* .limit(4).all()
Limit4(s) == SubSeq(s, 1, Min(Len(s), 4))

Column(rows, f) == [i \in 1..Len(rows) |-> rows[i][f]]

(***************************************************************************)
(* Growth figures (compute_screener_data, lines 294-304).                  *)
(***************************************************************************)
rev_growth_yoy(income_stmts) ==
    IF Len(income_stmts) >= 2
       /\ Truthy(income_stmts[1].revenue) /\ Truthy(income_stmts[2].revenue)
       /\ NotZero(income_stmts[2].revenue)
    THEN VDiv(VSub(income_stmts[1].revenue, income_stmts[2].revenue),
              VAbs(income_stmts[2].revenue))
    ELSE NULL

rev_growth_3yr(income_stmts) ==
    IF Len(income_stmts) >= 4
       /\ Truthy(income_stmts[1].revenue) /\ Truthy(income_stmts[4].revenue)
       /\ Positive(income_stmts[4].revenue)
    THEN CubeRootMinusOne(VDiv(income_stmts[1].revenue, income_stmts[4].revenue))
    ELSE NULL

earnings_growth_yoy(income_stmts) ==
    IF Len(income_stmts) >= 2
       /\ Truthy(income_stmts[1].net_income) /\ Truthy(income_stmts[2].net_income)
       /\ NotZero(income_stmts[2].net_income)
    THEN VDiv(VSub(income_stmts[1].net_income, income_stmts[2].net_income),
              VAbs(income_stmts[2].net_income))
    ELSE NULL

\* `row.f if row else None` for a .first() result.
FieldOf(first, f) == IF first # <<>> THEN first[1][f] ELSE NULL

(***************************************************************************)
(* The values dict of compute_screener_data (lines 313-373), from the      *)
(* company row and the two date-descending annual series.                  *)
(***************************************************************************)
Values(company, inc, met, now) ==
    LET latest_income == First(inc)
        latest_metric == First(met)
        historical_metrics == Historical(met)
        historical_income == Historical(inc)
        pe_5yr_avg == safe_avg(Column(historical_metrics, "pe_ratio"))
        ev_ebitda_5yr_avg == safe_avg(Column(historical_metrics, "ev_to_ebitda"))
        gross_margin_5yr_avg == safe_avg(Column(historical_income, "gross_profit_ratio"))
        operating_margin_5yr_avg == safe_avg(Column(historical_income, "operating_income_ratio"))
        net_margin_5yr_avg == safe_avg(Column(historical_income, "net_income_ratio"))
        roic_5yr_avg == safe_avg(Column(historical_metrics, "roic"))
        roe_5yr_avg == safe_avg(Column(historical_metrics, "roe"))
        income_stmts == Limit4(inc)
        forward_pe == FieldOf(latest_metric, "forward_pe")
        current_pe == FieldOf(latest_metric, "pe_ratio")
    IN  [ ticker |-> company.ticker,
          name |-> company.name,
          exchange |-> company.exchange_short,
          country |-> company.country,
          sector |-> company.sector,
          industry |-> company.industry,
          market_cap |-> FieldOf(latest_metric, "market_cap"),
          enterprise_value |-> FieldOf(latest_metric, "enterprise_value"),
          pe_ratio |-> current_pe,
          forward_pe |-> forward_pe,
          price_to_sales |-> FieldOf(latest_metric, "price_to_sales"),
          price_to_book |-> FieldOf(latest_metric, "price_to_book"),
          ev_to_ebitda |-> FieldOf(latest_metric, "ev_to_ebitda"),
          ev_to_revenue |-> FieldOf(latest_metric, "ev_to_revenue"),
          gross_margin |-> FieldOf(latest_income, "gross_profit_ratio"),
          operating_margin |-> FieldOf(latest_income, "operating_income_ratio"),
          net_margin |-> FieldOf(latest_income, "net_income_ratio"),
          ebitda_margin |-> FieldOf(latest_income, "ebitda_ratio"),
          roic |-> FieldOf(latest_metric, "roic"),
          roe |-> FieldOf(latest_metric, "roe"),
          roa |-> FieldOf(latest_metric, "roa"),
          revenue_growth_yoy |-> rev_growth_yoy(income_stmts),
          revenue_growth_3yr_cagr |-> rev_growth_3yr(income_stmts),
          earnings_growth_yoy |-> earnings_growth_yoy(income_stmts),
          debt_to_equity |-> FieldOf(latest_metric, "debt_to_equity"),
          net_debt_to_ebitda |-> FieldOf(latest_metric, "net_debt_to_ebitda"),
          current_ratio |-> FieldOf(latest_metric, "current_ratio"),
          pe_5yr_avg |-> pe_5yr_avg,
          ev_ebitda_5yr_avg |-> ev_ebitda_5yr_avg,
          gross_margin_5yr_avg |-> gross_margin_5yr_avg,
          operating_margin_5yr_avg |-> operating_margin_5yr_avg,
          net_margin_5yr_avg |-> net_margin_5yr_avg,
          roic_5yr_avg |-> roic_5yr_avg,
          roe_5yr_avg |-> roe_5yr_avg,
          forward_pe_vs_5yr_pct |-> pct_vs_avg(PyOr(forward_pe, current_pe), pe_5yr_avg),
          ev_ebitda_vs_5yr_pct |->
              pct_vs_avg(FieldOf(latest_metric, "ev_to_ebitda"), ev_ebitda_5yr_avg),
          gross_margin_vs_5yr_pct |->
              pct_vs_avg(FieldOf(latest_income, "gross_profit_ratio"), gross_margin_5yr_avg),
          operating_margin_vs_5yr_pct |->
              pct_vs_avg(FieldOf(latest_income, "operating_income_ratio"),
                         operating_margin_5yr_avg),
          roic_vs_5yr_pct |-> pct_vs_avg(FieldOf(latest_metric, "roic"), roic_5yr_avg),
          roe_vs_5yr_pct |-> pct_vs_avg(FieldOf(latest_metric, "roe"), roe_5yr_avg),
          computed_at |-> now ]

\* The fields compute_screener_data assigns (the keys of its values dict).
ValueFields ==
    { "ticker", "name", "exchange", "country", "sector", "industry",
      "market_cap", "enterprise_value", "pe_ratio", "forward_pe", "price_to_sales",
      "price_to_book", "ev_to_ebitda", "ev_to_revenue", "gross_margin",
      "operating_margin", "net_margin", "ebitda_margin", "roic", "roe", "roa",
      "revenue_growth_yoy", "revenue_growth_3yr_cagr", "earnings_growth_yoy",
      "debt_to_equity", "net_debt_to_ebitda", "current_ratio", "pe_5yr_avg",
      "ev_ebitda_5yr_avg", "gross_margin_5yr_avg", "operating_margin_5yr_avg",
      "net_margin_5yr_avg", "roic_5yr_avg", "roe_5yr_avg", "forward_pe_vs_5yr_pct",
      "ev_ebitda_vs_5yr_pct", "gross_margin_vs_5yr_pct", "operating_margin_vs_5yr_pct",
      "roic_vs_5yr_pct", "roe_vs_5yr_pct", "computed_at" }

\* The Float columns of screener_data the values dict does not name.
UnassignedFields == {"last_price", "short_percent_float", "short_ratio"}

\* The Float columns among the fields of the values dict.
NumericFields ==
    ValueFields \ {"computed_at", "ticker", "name", "exchange", "country", "sector",
                   "industry"}

\* A Float column cannot hold a complex number: the flush raises.
Storable(values) == \A f \in NumericFields : values[f].k # "complex"


(***************************************************************************)
(* Rows and provider records.                                              *)
(***************************************************************************)
\* setattr(row, k, v) for every k, v of values / Row(**values) on top of defaults.
Merge(row, values) ==
    [f \in DOMAIN row \cup DOMAIN values |-> IF f \in DOMAIN values THEN values[f] ELSE row[f]]

\* A date string of the provider: head stands for its first ten characters
\* (a day number when they are an ISO date, 0 when the string is empty or
\* missing, -1 when they are no date), rest for what follows them.
DateStr(head, rest) == [head |-> head, rest |-> rest]

NoDate == 0

parse_date(date_str) ==
    IF date_str.head = 0 /\ date_str.rest = "" THEN NoDate
    ELSE IF date_str.head > 0 THEN date_str.head
    ELSE NoDate

\* dict.get(key, default) on a provider record: ABSENT marks a missing key.
ABSENT == "<absent>"

Get(value, default) == IF value = ABSENT THEN default ELSE value

\* dict.get(key, default) for a numeric key: MISSING marks a missing key.
MISSING == [k |-> "absent", n |-> 0, d |-> 1]

GetNum(value, default) == IF value.k = "absent" THEN default ELSE value

\* `x or ""` on a string or None (None is written "<none>").
NONE == "<none>"

OrEmpty(x) == IF x = NONE \/ x = "" THEN "" ELSE x

\* The values dict of an income statement item (ingest_company_data, lines 131-148).
IncomeValues(item) ==
    [ revenue |-> item.revenue,
      cost_of_revenue |-> item.costOfRevenue,
      gross_profit |-> item.grossProfit,
      gross_profit_ratio |-> item.grossProfitRatio,
      operating_income |-> item.operatingIncome,
      operating_income_ratio |-> item.operatingIncomeRatio,
      ebitda |-> item.ebitda,
      ebitda_ratio |-> item.ebitdaratio,
      net_income |-> item.netIncome,
      net_income_ratio |-> item.netIncomeRatio,
      calendar_year |-> item.calendarYear,
      revenue_growth |-> NULL ]

\* The values dict of a key metrics item (ingest_company_data, lines 175-197).
MetricValues(item) ==
    [ calendar_year |-> item.calendarYear,
      pe_ratio |-> item.peRatio,
      forward_pe |-> PyOr(item.forwardPE, item.peRatio),
      price_to_sales |-> item.priceToSalesRatio,
      price_to_book |-> item.pbRatio,
      ev_to_ebitda |-> item.enterpriseValueOverEBITDA,
      ev_to_revenue |-> item.evToRevenue,
      enterprise_value |-> item.enterpriseValue,
      market_cap |-> item.marketCap,
      roic |-> item.roic,
      roe |-> item.roe,
      roa |-> item.returnOnAssets,
      revenue_per_share |-> item.revenuePerShare,
      earnings_per_share |-> item.earningsYield,
      free_cash_flow_per_share |-> item.freeCashFlowPerShare,
      book_value_per_share |-> item.bookValuePerShare,
      dividends_per_share |-> item.dividendYield,
      debt_to_equity |-> item.debtToEquity,
      net_debt_to_ebitda |-> item.netDebtToEBITDA,
      current_ratio |-> item.currentRatio,
      interest_coverage |-> item.interestCoverage ]

\* IncomeStatement(company_id=..., date=..., period="annual", **values).  A
\* statement row is identified by its unique key (company_id, date, period); its
\* autoincrement id, which nothing reads, is left out.
IncomeStatement(company_id, date, values) ==
    Merge([company_id |-> company_id, date |-> date, period |-> "annual"], values)

\* KeyMetric(company_id=..., date=..., period="annual", **values)
KeyMetric(company_id, date, values) ==
    Merge([company_id |-> company_id, date |-> date, period |-> "annual"], values)

\* ScreenerData(company_id=..., **values): the columns values does not name are NULL.
ScreenerData(id, company_id, values) ==
    Merge([id |-> id, company_id |-> company_id, last_price |-> NULL,
           short_percent_float |-> NULL, short_ratio |-> NULL], values)

\* Company(ticker=..., name=..., ...) of ingest_stock_list; is_active defaults to True.
Company(id, stock) ==
    [ id |-> id,
      ticker |-> stock.symbol,
      name |-> Get(stock.name, ""),
      exchange |-> Get(stock.exchange, ""),
      exchange_short |-> stock.exchangeShortName,
      country |-> "",
      sector |-> "",
      industry |-> "",
      is_active |-> TRUE ]


(***************************************************************************)
(* Transactions.  A session (autoflush=False) queries the committed rows;  *)
(* rows it has loaded and changed are the same objects on a later query,   *)
(* rows it has added are not seen by a query before the flush.  The flush  *)
(* at commit inserts the added rows; two rows with one unique key make it  *)
(* raise IntegrityError, and nothing of the transaction is stored.         *)
(***************************************************************************)
\* The autoincrement id of the k-th row added to a table.
NextId(table, k) == Cardinality(table) + k

SeqToSet(s) == {s[i] : i \in 1..Len(s)}

\* Target exchanges of the configuration.
TARGET_EXCHANGES ==
    { "NYSE", "NASDAQ", "AMEX", "TSX", "LSE", "XETRA", "EURONEXT",
      "SIX", "OMX", "OSE", "TSE", "ASX", "TASE", "SGX", "KSE", "HKSE" }

\* ingest_stock_list, lines 61-72.
RECURSIVE FilterStocks(_)
FilterStocks(all_stocks) ==
    IF all_stocks = <<>> THEN <<>>
    ELSE LET stock == Head(all_stocks)
             ticker == Get(stock.symbol, "")
             exchange == Get(stock.exchangeShortName, "")
             stype == Get(stock.type, "")
             rest == FilterStocks(Tail(all_stocks))
         IN  IF ticker = "" \/ exchange = "" THEN rest
             ELSE IF stype # "" /\ stype # "stock" THEN rest
             ELSE IF exchange \in TARGET_EXCHANGES THEN <<stock>> \o rest
             ELSE rest

\* ingest_stock_list, lines 77-99: rows are the loaded (and updated) Company
\* rows, added the stocks for which a Company is created.
RECURSIVE UpsertStocks(_, _, _)
UpsertStocks(filtered, rows, added) ==
    IF filtered = <<>> THEN [rows |-> rows, added |-> added]
    ELSE LET stock == Head(filtered)
             existing == {c \in rows : c.ticker = stock.symbol
                                       /\ c.exchange_short = stock.exchangeShortName}
         IN  IF existing # {}
             THEN LET e == CHOOSE c \in existing : TRUE
                      u == [e EXCEPT !.name = Get(stock.name, e.name),
                                     !.exchange = Get(stock.exchange, e.exchange)]
                  IN  UpsertStocks(Tail(filtered), (rows \ {e}) \cup {u}, added)
             ELSE UpsertStocks(Tail(filtered), rows, Append(added, stock))

\* Two added rows share a value of the unique key.
DuplicateKeys(added, Key(_)) ==
    \E i, j \in 1..Len(added) : i < j /\ Key(added[i]) = Key(added[j])

StockKey(stock) == <<stock.symbol, stock.exchangeShortName>>

\* ingest_stock_list as one transaction: the Company table after it, or raised.
IngestStockListResult(table, all_stocks) ==
    LET r == UpsertStocks(FilterStocks(all_stocks), table, <<>>)
    IN  IF DuplicateKeys(r.added, StockKey)
        THEN [raised |-> TRUE, companies |-> table]
        ELSE [raised |-> FALSE,
              companies |-> r.rows \cup
                  {Company(NextId(table, i), r.added[i]) : i \in 1..Len(r.added)}]

\* ingest_company_data, lines 113-116.
ApplyProfile(company, profile) ==
    IF profile.empty THEN company
    ELSE [company EXCEPT !.country = OrEmpty(Get(profile.country, company.country)),
                         !.sector = OrEmpty(Get(profile.sector, company.sector)),
                         !.industry = OrEmpty(Get(profile.industry, company.industry))]

\* Faulty variant: an existing row keeps a field for which the new item has no value.
RECURSIVE UpsertPeriodsFillingOnly(_, _, _, _)
UpsertPeriodsFillingOnly(data, company_id, rows, added) ==
    IF data = <<>> THEN [rows |-> rows, added |-> added]
    ELSE LET item == Head(data)
             d == parse_date(item.date)
             existing == {r \in rows : r.company_id = company_id /\ r.date = d
                                       /\ r.period = "annual"}
         IN  IF d = NoDate THEN UpsertPeriodsFillingOnly(Tail(data), company_id, rows, added)
             ELSE IF existing # {}
             THEN LET e == CHOOSE r \in existing : TRUE
                      u == [f \in DOMAIN e |->
                               IF f \in DOMAIN item.values /\ item.values[f] # NULL
                               THEN item.values[f] ELSE e[f]]
                  IN  UpsertPeriodsFillingOnly(Tail(data), company_id,
                                               (rows \ {e}) \cup {u}, added)
             ELSE UpsertPeriodsFillingOnly(Tail(data), company_id, rows,
                                           Append(added, [date |-> d, values |-> item.values]))

\* The loops of ingest_company_data over the provider's items (lines 121-160
\* and 165-209); data holds, for each item, its date string and values dict.
RECURSIVE UpsertPeriods(_, _, _, _)
UpsertPeriods(data, company_id, rows, added) ==
    IF data = <<>> THEN [rows |-> rows, added |-> added]
    ELSE LET item == Head(data)
             d == parse_date(item.date)
             existing == {r \in rows : r.company_id = company_id /\ r.date = d
                                       /\ r.period = "annual"}
         IN  IF d = NoDate THEN UpsertPeriods(Tail(data), company_id, rows, added)
             ELSE IF existing # {}
             THEN LET e == CHOOSE r \in existing : TRUE
                  IN  UpsertPeriods(Tail(data), company_id,
                                    (rows \ {e}) \cup {Merge(e, item.values)}, added)
             ELSE UpsertPeriods(Tail(data), company_id, rows,
                                Append(added, [date |-> d, values |-> item.values]))

WithValues(data, ValuesOf(_)) ==
    [k \in 1..Len(data) |-> [date |-> data[k].date, values |-> ValuesOf(data[k])]]

PeriodKey(a) == a.date

\* ingest_company_data as one transaction (commit at line 211).
IngestCompanyDataResult(ctable, itable, mtable, company_id, profile, income_data, metrics_data) ==
    LET company == CHOOSE c \in ctable : c.id = company_id
        i == UpsertPeriods(WithValues(income_data, IncomeValues), company_id, itable, <<>>)
        m == UpsertPeriods(WithValues(metrics_data, MetricValues), company_id, mtable, <<>>)
    IN  IF DuplicateKeys(i.added, PeriodKey) \/ DuplicateKeys(m.added, PeriodKey)
        THEN [raised |-> TRUE, companies |-> ctable,
              income_statements |-> itable, key_metrics |-> mtable]
        ELSE [raised |-> FALSE,
              companies |-> (ctable \ {company}) \cup {ApplyProfile(company, profile)},
              income_statements |-> i.rows \cup
                  {IncomeStatement(company_id, i.added[k].date, i.added[k].values) :
                       k \in 1..Len(i.added)},
              key_metrics |-> m.rows \cup
                  {KeyMetric(company_id, m.added[k].date, m.added[k].values) :
                       k \in 1..Len(m.added)}]

\* compute_revenue_growth: the IncomeStatement table after it.
ComputeRevenueGrowthResult(itable, company_id) ==
    LET stmts == AnnualIncome(itable, company_id)
        Growth(i) ==
            IF i + 1 <= Len(stmts) /\ Truthy(stmts[i].revenue) /\ Truthy(stmts[i + 1].revenue)
               /\ NotZero(stmts[i + 1].revenue)
            THEN VDiv(VSub(stmts[i].revenue, stmts[i + 1].revenue), VAbs(stmts[i + 1].revenue))
            ELSE stmts[i].revenue_growth
    IN  (itable \ SeqToSet(stmts)) \cup
        {[stmts[i] EXCEPT !.revenue_growth = Growth(i)] : i \in 1..Len(stmts)}

\* Faulty variant: the lookup of the existing snapshot never finds one.
ExistingSnapshotNeverFound(stable, company_id) == <<>>

\* Faulty variant: the lookup of the existing snapshot is not filtered by company.
ExistingSnapshotOfAnyCompany(stable, company_id) ==
    IF stable = {} THEN <<>>
    ELSE <<CHOOSE sd \in stable : \A o \in stable : sd.id <= o.id>>

\* db.query(ScreenerData).filter(ScreenerData.company_id == company.id).first()
ExistingSnapshot(stable, company_id) ==
    LET found == {sd \in stable : sd.company_id = company_id}
    IN  IF found = {} THEN <<>>
        ELSE <<CHOOSE sd \in found : \A o \in found : sd.id <= o.id>>

\* Faulty variant: the update keeps the stored value of a field whose new value is None.
SetAttrsSkippingNone(existing, values) ==
    [ f \in DOMAIN existing |->
        IF f \in DOMAIN values
        THEN IF f \in NumericFields /\ IsNone(values[f]) THEN existing[f] ELSE values[f]
        ELSE existing[f] ]

\* for k, v in values.items(): setattr(existing, k, v)
SetAttrs(existing, values) == Merge(existing, values)

\* Faulty variant: no early return for a company without history.
ComputeScreenerDataNoEarlyReturn(ctable, itable, mtable, stable, company_id, now) ==
    LET company == CHOOSE c \in ctable : c.id = company_id
        inc == AnnualIncome(itable, company_id)
        met == AnnualMetrics(mtable, company_id)
        values == Values(company, inc, met, now)
        existing == ExistingSnapshot(stable, company_id)
    IN  IF ~Storable(values)
        THEN [kind |-> "raised", screener_data |-> stable,
              income_statements |-> itable, key_metrics |-> mtable]
        ELSE IF existing # <<>>
        THEN [kind |-> "updated",
              screener_data |-> (stable \ {existing[1]}) \cup {SetAttrs(existing[1], values)},
              income_statements |-> itable, key_metrics |-> mtable]
        ELSE [kind |-> "created",
              screener_data |-> stable \cup
                  {ScreenerData(NextId(stable, 1), company_id, values)},
              income_statements |-> itable, key_metrics |-> mtable]

\* Faulty variant: the composer stores the growth it computed on the latest statement.
ComputeScreenerDataWritingGrowth(ctable, itable, mtable, stable, company_id, now) ==
    LET company == CHOOSE c \in ctable : c.id = company_id
        inc == AnnualIncome(itable, company_id)
        met == AnnualMetrics(mtable, company_id)
        values == Values(company, inc, met, now)
        existing == ExistingSnapshot(stable, company_id)
        written == IF inc = <<>> THEN itable
                   ELSE (itable \ {inc[1]}) \cup
                        {[inc[1] EXCEPT !.revenue_growth = values.revenue_growth_yoy]}
    IN  IF First(inc) = <<>> /\ First(met) = <<>>
        THEN [kind |-> "skipped", screener_data |-> stable,
              income_statements |-> itable, key_metrics |-> mtable]
        ELSE IF ~Storable(values)
        THEN [kind |-> "raised", screener_data |-> stable,
              income_statements |-> itable, key_metrics |-> mtable]
        ELSE IF existing # <<>>
        THEN [kind |-> "updated",
              screener_data |-> (stable \ {existing[1]}) \cup {SetAttrs(existing[1], values)},
              income_statements |-> written, key_metrics |-> mtable]
        ELSE [kind |-> "created",
              screener_data |-> stable \cup
                  {ScreenerData(NextId(stable, 1), company_id, values)},
              income_statements |-> written, key_metrics |-> mtable]

\* Faulty variant: the composer adds a row without looking for an existing one.
ComputeScreenerDataAlwaysAdding(ctable, itable, mtable, stable, company_id, now) ==
    LET company == CHOOSE c \in ctable : c.id = company_id
        inc == AnnualIncome(itable, company_id)
        met == AnnualMetrics(mtable, company_id)
        values == Values(company, inc, met, now)
    IN  IF First(inc) = <<>> /\ First(met) = <<>>
        THEN [kind |-> "skipped", screener_data |-> stable,
              income_statements |-> itable, key_metrics |-> mtable]
        ELSE IF ~Storable(values)
        THEN [kind |-> "raised", screener_data |-> stable,
              income_statements |-> itable, key_metrics |-> mtable]
        ELSE [kind |-> "created",
              screener_data |-> stable \cup
                  {ScreenerData(NextId(stable, 1), company_id, values)},
              income_statements |-> itable, key_metrics |-> mtable]

\* Faulty variant: the fields that can be stored are stored before the flush raises.
ComputeScreenerDataStoringBeforeRaise(ctable, itable, mtable, stable, company_id, now) ==
    LET company == CHOOSE c \in ctable : c.id = company_id
        inc == AnnualIncome(itable, company_id)
        met == AnnualMetrics(mtable, company_id)
        values == Values(company, inc, met, now)
        existing == ExistingSnapshot(stable, company_id)
        storable == [f \in DOMAIN values |->
                        IF f \in NumericFields /\ values[f].k = "complex" THEN NULL
                        ELSE values[f]]
    IN  IF First(inc) = <<>> /\ First(met) = <<>>
        THEN [kind |-> "skipped", screener_data |-> stable,
              income_statements |-> itable, key_metrics |-> mtable]
        ELSE IF existing # <<>>
        THEN [kind |-> IF Storable(values) THEN "updated" ELSE "raised",
              screener_data |-> (stable \ {existing[1]}) \cup {SetAttrs(existing[1], storable)},
              income_statements |-> itable, key_metrics |-> mtable]
        ELSE [kind |-> IF Storable(values) THEN "created" ELSE "raised",
              screener_data |-> stable \cup
                  {ScreenerData(NextId(stable, 1), company_id, storable)},
              income_statements |-> itable, key_metrics |-> mtable]

\* Faulty variant: the composer returns early when either series is empty.
ComputeScreenerDataNeedingBoth(ctable, itable, mtable, stable, company_id, now) ==
    LET company == CHOOSE c \in ctable : c.id = company_id
        inc == AnnualIncome(itable, company_id)
        met == AnnualMetrics(mtable, company_id)
        values == Values(company, inc, met, now)
        existing == ExistingSnapshot(stable, company_id)
    IN  IF First(inc) = <<>> \/ First(met) = <<>>
        THEN [kind |-> "skipped", screener_data |-> stable,
              income_statements |-> itable, key_metrics |-> mtable]
        ELSE IF ~Storable(values)
        THEN [kind |-> "raised", screener_data |-> stable,
              income_statements |-> itable, key_metrics |-> mtable]
        ELSE IF existing # <<>>
        THEN [kind |-> "updated",
              screener_data |-> (stable \ {existing[1]}) \cup {SetAttrs(existing[1], values)},
              income_statements |-> itable, key_metrics |-> mtable]
        ELSE [kind |-> "created",
              screener_data |-> stable \cup
                  {ScreenerData(NextId(stable, 1), company_id, values)},
              income_statements |-> itable, key_metrics |-> mtable]

\* compute_screener_data as one transaction: kind is what it did ("skipped":
\* returned at line 247; "raised": the flush of line 382 raised and nothing is
\* stored; "created"; "updated"), the other fields the tables after it.
ComputeScreenerDataResult(ctable, itable, mtable, stable, company_id, now) ==
    LET company == CHOOSE c \in ctable : c.id = company_id
        inc == AnnualIncome(itable, company_id)
        met == AnnualMetrics(mtable, company_id)
        values == Values(company, inc, met, now)
        existing == ExistingSnapshot(stable, company_id)
    IN  IF First(inc) = <<>> /\ First(met) = <<>>
        THEN [kind |-> "skipped", screener_data |-> stable,
              income_statements |-> itable, key_metrics |-> mtable]
        ELSE IF ~Storable(values)
        THEN [kind |-> "raised", screener_data |-> stable,
              income_statements |-> itable, key_metrics |-> mtable]
        ELSE IF existing # <<>>
        THEN [kind |-> "updated",
              screener_data |-> (stable \ {existing[1]}) \cup {SetAttrs(existing[1], values)},
              income_statements |-> itable, key_metrics |-> mtable]
        ELSE [kind |-> "created",
              screener_data |-> stable \cup
                  {ScreenerData(NextId(stable, 1), company_id, values)},
              income_statements |-> itable, key_metrics |-> mtable]

\* Faulty variant: the quote update also overwrites forward_pe with the quoted P/E.
RECURSIVE ApplyQuotesAlsoForwardPE(_, _, _)
ApplyQuotesAlsoForwardPE(quotes, active, stable) ==
    IF quotes = <<>> THEN stable
    ELSE LET q == Head(quotes)
             found == {c \in active : c.ticker = q.symbol}
         IN  IF found = {} THEN ApplyQuotesAlsoForwardPE(Tail(quotes), active, stable)
             ELSE LET company == CHOOSE c \in found : \A o \in found : o.id <= c.id
                      sd == ExistingSnapshot(stable, company.id)
                  IN  IF sd = <<>> THEN ApplyQuotesAlsoForwardPE(Tail(quotes), active, stable)
                      ELSE ApplyQuotesAlsoForwardPE(Tail(quotes), active,
                               (stable \ {sd[1]}) \cup
                               {[sd[1] EXCEPT !.market_cap = GetNum(q.marketCap, @),
                                              !.last_price = GetNum(q.price, @),
                                              !.pe_ratio = GetNum(q.pe, @),
                                              !.forward_pe = GetNum(q.pe, @)]})

\* Faulty variant: the quote update creates a snapshot for a company that has none.
RECURSIVE ApplyQuotesCreating(_, _, _)
ApplyQuotesCreating(quotes, active, stable) ==
    IF quotes = <<>> THEN stable
    ELSE LET q == Head(quotes)
             found == {c \in active : c.ticker = q.symbol}
         IN  IF found = {} THEN ApplyQuotesCreating(Tail(quotes), active, stable)
             ELSE LET company == CHOOSE c \in found : \A o \in found : o.id <= c.id
                      sd == ExistingSnapshot(stable, company.id)
                      row == IF sd = <<>>
                             THEN [ f \in ValueFields \cup UnassignedFields
                                             \cup {"id", "company_id"} |->
                                      IF f = "id" THEN NextId(stable, 1)
                                      ELSE IF f = "company_id" THEN company.id
                                      ELSE IF f = "computed_at" THEN 0
                                      ELSE IF f \in NumericFields \cup UnassignedFields THEN NULL
                                      ELSE "" ]
                             ELSE sd[1]
                  IN  ApplyQuotesCreating(Tail(quotes), active,
                          (stable \ {row}) \cup
                          {[row EXCEPT !.market_cap = GetNum(q.marketCap, @),
                                       !.last_price = GetNum(q.price, @),
                                       !.pe_ratio = GetNum(q.pe, @)]})

\* run_incremental_update, lines 464-472, for the quotes of one response.
\* Faulty variant: a key the quote lacks reads as None (q.get(key) with no default).
RECURSIVE ApplyQuotesDefaultingNone(_, _, _)
ApplyQuotesDefaultingNone(quotes, active, stable) ==
    IF quotes = <<>> THEN stable
    ELSE LET q == Head(quotes)
             found == {c \in active : c.ticker = q.symbol}
         IN  IF found = {} THEN ApplyQuotesDefaultingNone(Tail(quotes), active, stable)
             ELSE LET company == CHOOSE c \in found : \A o \in found : o.id <= c.id
                      sd == ExistingSnapshot(stable, company.id)
                  IN  IF sd = <<>> THEN ApplyQuotesDefaultingNone(Tail(quotes), active, stable)
                      ELSE ApplyQuotesDefaultingNone(Tail(quotes), active,
                               (stable \ {sd[1]}) \cup
                               {[sd[1] EXCEPT !.market_cap = GetNum(q.marketCap, NULL),
                                              !.last_price = GetNum(q.price, NULL),
                                              !.pe_ratio = GetNum(q.pe, NULL)]})

RECURSIVE ApplyQuotes(_, _, _)
ApplyQuotes(quotes, active, stable) ==
    IF quotes = <<>> THEN stable
    ELSE LET q == Head(quotes)
             found == {c \in active : c.ticker = q.symbol}
         IN  IF found = {} THEN ApplyQuotes(Tail(quotes), active, stable)
             ELSE LET \* company_map keeps the last company of a ticker
                      company == CHOOSE c \in found : \A o \in found : o.id <= c.id
                      sd == ExistingSnapshot(stable, company.id)
                  IN  IF sd = <<>> THEN ApplyQuotes(Tail(quotes), active, stable)
                      ELSE ApplyQuotes(Tail(quotes), active,
                               (stable \ {sd[1]}) \cup
                               {[sd[1] EXCEPT !.market_cap = GetNum(q.marketCap, @),
                                              !.last_price = GetNum(q.price, @),
                                              !.pe_ratio = GetNum(q.pe, @)]})


(***************************************************************************)
(* Inputs of the model.                                                    *)
(***************************************************************************)
\* An income statement item of the provider; a missing key reads as None.
IncomeItem(date, revenue, net_income, ratio) ==
    [ date |-> date, revenue |-> revenue, costOfRevenue |-> NULL, grossProfit |-> NULL,
      grossProfitRatio |-> ratio, operatingIncome |-> NULL, operatingIncomeRatio |-> ratio,
      ebitda |-> NULL, ebitdaratio |-> ratio, netIncome |-> net_income,
      netIncomeRatio |-> ratio, calendarYear |-> NULL ]

\* A key metrics item of the provider.
MetricItem(date, pe, forward_pe, other) ==
    [ date |-> date, calendarYear |-> NULL, peRatio |-> pe, forwardPE |-> forward_pe,
      priceToSalesRatio |-> other, pbRatio |-> other,
      enterpriseValueOverEBITDA |-> other, evToRevenue |-> other,
      enterpriseValue |-> other, marketCap |-> other, roic |-> other, roe |-> other,
      returnOnAssets |-> other, revenuePerShare |-> NULL, earningsYield |-> NULL,
      freeCashFlowPerShare |-> NULL, bookValuePerShare |-> NULL, dividendYield |-> NULL,
      debtToEquity |-> other, netDebtToEBITDA |-> other, currentRatio |-> other,
      interestCoverage |-> NULL ]

Vals == {NULL} \cup {Num(i) : i \in -MaxVal..MaxVal}

\* The company of an isolated composition.
TheCompany ==
    [ id |-> 1, ticker |-> "A", name |-> "Alpha", exchange |-> "New York Stock Exchange",
      exchange_short |-> "NYSE", country |-> "US", sector |-> "Tech",
      industry |-> "Software", is_active |-> TRUE ]

\* The date-descending annual income series with the given revenues and net
\* incomes, latest first, as ingest_company_data stores it.
IncomeSeries(revenues, net_incomes) ==
    [ i \in 1..Len(revenues) |->
        IncomeStatement(TheCompany.id, Len(revenues) - i + 1,
            IncomeValues(IncomeItem(DateStr(Len(revenues) - i + 1, ""),
                                    revenues[i], net_incomes[i], NULL))) ]

NoOp == [op |-> "none", cid |-> 0, kind |-> "none", changed |-> FALSE, again |-> FALSE]

NoProgress ==
    [ running |-> FALSE, phase |-> "", current |-> 0, total |-> 0, current_ticker |-> "",
      errors |-> 0, started_at |-> 0, last_error |-> "" ]

NoOut == [computed_at |-> 0]

\* No invocation of run_full_ingestion has a thread of its own.
NoThreads == <<>>

\* No composition is under way.
NoSession == [cid |-> 0, values |-> NoOut, existing |-> <<>>, row |-> NoOut, todo |-> <<>>]

(***************************************************************************)
(* SpecGrowth: one composition in isolation, over every income series of   *)
(* at most MaxPeriods periods with revenues and net incomes in Vals.       *)
(***************************************************************************)
InitGrowth ==
    /\ companies = {TheCompany}
    /\ income_statements = {}
    /\ key_metrics = {}
    /\ screener_data = {}
    /\ ingestion_progress = NoProgress
    /\ clock = 1
    /\ pc = "idle"
    /\ queue = <<>>
    /\ idx = 0
    /\ lastOp = NoOp
    /\ outcome = <<>>
    /\ \E n \in 0..MaxPeriods :
         \E r \in [1..n -> Vals], e \in [1..n -> Vals] : in_income = IncomeSeries(r, e)
    /\ in_metrics = <<>>
    /\ out = NoOut
    /\ done = FALSE
    /\ session = NoSession
    /\ in_stocks = <<>>
    /\ in_quotes = <<>>
    /\ threads = NoThreads

\* The values compute_screener_data builds from the two series.
ComposeIsolated ==
    /\ ~done
    /\ out' = Values(TheCompany, in_income, in_metrics, clock)
    /\ done' = TRUE
    /\ UNCHANGED <<companies, income_statements, key_metrics, screener_data,
                   ingestion_progress, clock, pc, queue, idx, lastOp, outcome,
                   in_income, in_metrics, in_stocks, in_quotes, threads, session>>

NextGrowth == ComposeIsolated

SpecGrowth == InitGrowth /\ [][NextGrowth]_vars

(***************************************************************************)
(* C8: revenue_growth_yoy is null exactly when there are fewer than 2      *)
(* annual income periods, or the latest or the prior revenue is null, or   *)
(* the prior revenue is zero; otherwise (a latest revenue of zero          *)
(* included) it is (latest.revenue - prior.revenue) / abs(prior.revenue).  *)
(***************************************************************************)
YoYOf(latest, prior) == VDiv(VSub(latest, prior), VAbs(prior))

C8_RevenueYoYAsClaimed ==
    done =>
        LET s == in_income
            undefined == \/ Len(s) < 2
                         \/ IsNone(s[1].revenue)
                         \/ IsNone(s[2].revenue)
                         \/ ~NotZero(s[2].revenue)
        IN  /\ IsNone(out.revenue_growth_yoy) <=> undefined
            /\ ~undefined => out.revenue_growth_yoy = YoYOf(s[1].revenue, s[2].revenue)

(***************************************************************************)
(* C9: revenue_growth_3yr_cagr is null exactly when there are fewer than 4 *)
(* periods, or period[3].revenue is null or <= 0, or period[0].revenue is  *)
(* null; otherwise it is the real number                                   *)
(* (period[0].revenue / period[3].revenue)^(1/3) - 1.                      *)
(***************************************************************************)
\* The real number x^(1/3) - 1.
RealCubeRootMinusOne(x) ==
    IF x.n = 0 THEN Num(-1) ELSE [k |-> "root3m1", n |-> x.n, d |-> x.d]

C9_CagrAsClaimed ==
    done =>
        LET s == in_income
            undefined == \/ Len(s) < 4
                         \/ IsNone(s[4].revenue)
                         \/ ~Positive(s[4].revenue)
                         \/ IsNone(s[1].revenue)
        IN  /\ IsNone(out.revenue_growth_3yr_cagr) <=> undefined
            /\ ~undefined => out.revenue_growth_3yr_cagr =
                                 RealCubeRootMinusOne(VDiv(s[1].revenue, s[4].revenue))

(***************************************************************************)
(* C10: earnings_growth_yoy is null exactly when there are fewer than 2    *)
(* annual income periods, or the latest or the prior net income is null,   *)
(* or the prior net income is zero; otherwise (a latest net income of zero *)
(* included) it is                                                         *)
(* (latest.net_income - prior.net_income) / abs(prior.net_income).         *)
(***************************************************************************)
C10_EarningsYoYAsClaimed ==
    done =>
        LET s == in_income
            undefined == \/ Len(s) < 2
                         \/ IsNone(s[1].net_income)
                         \/ IsNone(s[2].net_income)
                         \/ ~NotZero(s[2].net_income)
        IN  /\ IsNone(out.earnings_growth_yoy) <=> undefined
            /\ ~undefined => out.earnings_growth_yoy =
                                 YoYOf(s[1].net_income, s[2].net_income)


(***************************************************************************)
(* What the provider returns, per call.                                    *)
(***************************************************************************)
Stock(symbol, exchangeShortName, type, name, exchange) ==
    [ symbol |-> symbol, exchangeShortName |-> exchangeShortName, type |-> type,
      name |-> name, exchange |-> exchange ]

StockLists ==
    { << Stock("A", "NYSE", "stock", "Alpha", "New York Stock Exchange"),
         Stock("B", "NASDAQ", ABSENT, ABSENT, "Nasdaq"),
         Stock("C", "OTC", "stock", "Gamma", "Other OTC") >>,
      << Stock("A", "NYSE", "stock", "Alpha Inc", ABSENT),
         Stock("E", "NYSE", "etf", "Fund", "New York Stock Exchange"),
         Stock("", "NYSE", "stock", "Nameless", ABSENT) >> }

NoProfile == [empty |-> TRUE, country |-> ABSENT, sector |-> ABSENT, industry |-> ABSENT]

\* The three responses (profile, income statements, key metrics) the provider
\* gives for one company during one ingest_company_data.
Responses(profile, income, metrics) ==
    [profile |-> profile, income |-> income, metrics |-> metrics]

ProviderData(ticker) ==
    IF ticker = "A"
    THEN { Responses([empty |-> FALSE, country |-> "US", sector |-> "Tech", industry |-> NONE],
                     << IncomeItem(DateStr(4, ""), Num(2), Num(1), Num(1)),
                        IncomeItem(DateStr(3, ""), Num(1), Num(0), Num(0)),
                        IncomeItem(DateStr(2, ""), NULL, Num(-1), NULL),
                        IncomeItem(DateStr(1, ""), Num(1), Num(1), Num(1)) >>,
                     << MetricItem(DateStr(4, ""), Num(2), NULL, Num(1)),
                        MetricItem(DateStr(3, ""), Num(1), Num(1), Num(2)) >>),
           Responses(NoProfile,
                     << IncomeItem(DateStr(4, " 00:00:00"), Num(0), Num(0), NULL),
                        IncomeItem(DateStr(-1, ""), Num(1), Num(1), Num(1)) >>,
                     << MetricItem(DateStr(4, ""), Num(0), NULL, NULL) >>),
           Responses(NoProfile,
                     << IncomeItem(DateStr(4, ""), Num(-1), NULL, Num(1)) >>,
                     <<>>) }
    ELSE { Responses(NoProfile, <<>>, <<>>),
           Responses(NoProfile,
                     << IncomeItem(DateStr(2, ""), Num(0), Num(1), Num(0)),
                        IncomeItem(DateStr(1, ""), Num(1), Num(1), Num(1)) >>,
                     <<>>),
           Responses(NoProfile,
                     << IncomeItem(DateStr(2, ""), Num(1), Num(1), Num(1)),
                        IncomeItem(DateStr(2, " 00:00:00"), Num(0), Num(1), Num(0)) >>,
                     <<>>) }

Quote(symbol, marketCap, price, pe) ==
    [symbol |-> symbol, marketCap |-> marketCap, price |-> price, pe |-> pe]

QuoteResponses ==
    { << Quote("A", Num(5), Num(5), Num(5)), Quote("Z", Num(1), Num(1), Num(1)) >>,
      << Quote("A", MISSING, Num(7), MISSING) >> }

(***************************************************************************)
(* Operations on the store, each one transaction.                          *)
(***************************************************************************)
\* lastOp after run_incremental_update, and after an operation that is neither
\* it nor compute_screener_data.
Quotes == [op |-> "quotes", cid |-> 0, kind |-> "ok", changed |-> FALSE, again |-> FALSE]

Other == [op |-> "other", cid |-> 0, kind |-> "ok", changed |-> FALSE, again |-> FALSE]

CompanyIds == {c.id : c \in companies}

CompanyById(id) == CHOOSE c \in companies : c.id = id

SameButComputedAt(a, b) ==
    /\ DOMAIN a = DOMAIN b
    /\ \A f \in DOMAIN a \ {"computed_at"} : a[f] = b[f]

\* The fields of the values dict that only the statement series determine and
\* only compute_screener_data assigns.
StatementFields == NumericFields \ {"market_cap", "pe_ratio"}

\* The lastOp record of a composition for company cid with result r: changed
\* says that a statement-derived field got a new value, again that it follows
\* a successful composition of the same company directly.
ComposeOp(cid, r) ==
    LET old == ExistingSnapshot(screener_data, cid)
        new == ExistingSnapshot(r.screener_data, cid)
    IN  [ op |-> "compute", cid |-> cid, kind |-> r.kind,
          changed |-> /\ r.kind = "updated"
                      /\ \E f \in StatementFields : old[1][f] # new[1][f],
          again |-> /\ lastOp.op = "compute" /\ lastOp.cid = cid
                    /\ lastOp.kind \in {"created", "updated"} ]

\* The store after compute_screener_data(db, company) and what it did.
Compose(cid) ==
    ComputeScreenerDataResult(companies, income_statements, key_metrics, screener_data,
                              cid, clock)

\* ingest_stock_list(db), the provider returning all_stocks.
IngestStockList(all_stocks) ==
    LET r == IngestStockListResult(companies, all_stocks)
    IN  /\ pc = "idle"
        /\ companies' = r.companies
        /\ lastOp' = Other
        /\ UNCHANGED <<income_statements, key_metrics, screener_data, ingestion_progress,
                       clock, pc, queue, idx, outcome, in_income, in_metrics, in_stocks, in_quotes, threads, out, done, session>>

\* ingest_company_data(db, company), the provider returning the three responses.
IngestCompanyData(cid, profile, income_data, metrics_data) ==
    LET r == IngestCompanyDataResult(companies, income_statements, key_metrics, cid,
                                     profile, income_data, metrics_data)
    IN  /\ pc = "idle"
        /\ companies' = r.companies
        /\ income_statements' = r.income_statements
        /\ key_metrics' = r.key_metrics
        /\ lastOp' = Other
        /\ UNCHANGED <<screener_data, ingestion_progress, clock, pc, queue, idx, outcome,
                       in_income, in_metrics, in_stocks, in_quotes, threads, out, done, session>>

\* compute_revenue_growth(db, company)
ComputeRevenueGrowth(cid) ==
    /\ pc = "idle"
    /\ income_statements' = ComputeRevenueGrowthResult(income_statements, cid)
    /\ lastOp' = Other
    /\ UNCHANGED <<companies, key_metrics, screener_data, ingestion_progress, clock, pc,
                   queue, idx, outcome, in_income, in_metrics, in_stocks, in_quotes, threads, out, done, session>>

\* compute_screener_data(db, company)
ComputeScreenerData(cid) ==
    LET r == Compose(cid)
    IN  /\ pc = "idle"
        /\ clock < MaxClock
        /\ screener_data' = r.screener_data
        /\ income_statements' = r.income_statements
        /\ key_metrics' = r.key_metrics
        /\ clock' = IF r.kind \in {"created", "updated"} THEN clock + 1 ELSE clock
        /\ lastOp' = ComposeOp(cid, r)
        /\ UNCHANGED <<companies, ingestion_progress, pc, queue, idx, outcome,
                       in_income, in_metrics, in_stocks, in_quotes, threads, out, done, session>>

\* run_incremental_update(), the provider returning quotes for the one batch.
RunIncrementalUpdate(quotes) ==
    /\ screener_data' = ApplyQuotes(quotes, {c \in companies : c.is_active}, screener_data)
    /\ lastOp' = Quotes
    /\ UNCHANGED <<companies, income_statements, key_metrics, ingestion_progress, clock,
                   pc, queue, idx, outcome, in_income, in_metrics, in_stocks, in_quotes, threads, out, done, session>>

(***************************************************************************)
(* SpecOps: the functions of the pipeline invoked in any order on one      *)
(* database, starting from the empty tables.                               *)
(***************************************************************************)
Init ==
    /\ companies = {}
    /\ income_statements = {}
    /\ key_metrics = {}
    /\ screener_data = {}
    /\ ingestion_progress = NoProgress
    /\ clock = 1
    /\ pc = "idle"
    /\ queue = <<>>
    /\ idx = 0
    /\ lastOp = NoOp
    /\ outcome = <<>>
    /\ in_income = <<>>
    /\ in_metrics = <<>>
    /\ out = NoOut
    /\ done = FALSE
    /\ session = NoSession
    /\ in_stocks = <<>>
    /\ in_quotes = <<>>
    /\ threads = NoThreads

NextOps ==
    \/ \E all_stocks \in StockLists : IngestStockList(all_stocks)
    \/ \E c \in companies :
         \E p \in ProviderData(c.ticker) :
              IngestCompanyData(c.id, p.profile, p.income, p.metrics)
    \/ \E c \in companies : ComputeRevenueGrowth(c.id)
    \/ \E c \in companies : ComputeScreenerData(c.id)
    \/ \E quotes \in QuoteResponses : RunIncrementalUpdate(quotes)

SpecOps == Init /\ [][NextOps]_vars


(***************************************************************************)
(* Spec: the program as main.py runs it, one full ingestion pass at a time *)
(* (run_full_ingestion) and the incremental quote update interleaved with  *)
(* its transactions.                                                       *)
(***************************************************************************)
\* companies = db.query(Company).filter(Company.is_active == True).all()
ActiveCompanyIds(table) ==
    LET ids == {c.id : c \in {x \in table : x.is_active}}
        Ordered[S \in SUBSET ids] ==
            IF S = {} THEN <<>>
            ELSE LET m == CHOOSE x \in S : \A y \in S : x <= y
                 IN  <<m>> \o Ordered[S \ {m}]
    IN  Ordered[ids]

\* run_full_ingestion, lines 393-401.
Start ==
    /\ pc = "idle"
    /\ ~ingestion_progress.running
    /\ ingestion_progress' =
           [ running |-> TRUE, phase |-> "Loading stock list", current |-> 0, total |-> 0,
             current_ticker |-> "", errors |-> 0, started_at |-> clock, last_error |-> "" ]
    /\ pc' = "list"
    /\ lastOp' = Other
    /\ UNCHANGED <<companies, income_statements, key_metrics, screener_data, clock, queue,
                   idx, outcome, in_income, in_metrics, in_stocks, in_quotes, threads, out, done, session>>

\* run_full_ingestion, lines 406-414, and lines 438-445 when the stock list raises.
PassStockList(all_stocks) ==
    LET r == IngestStockListResult(companies, all_stocks)
        q == ActiveCompanyIds(r.companies)
    IN  /\ pc = "list"
        /\ companies' = r.companies
        /\ lastOp' = Other
        /\ IF r.raised
           THEN /\ ingestion_progress' =
                       [ingestion_progress EXCEPT !.phase = "Failed", !.last_error = "stock list",
                                                  !.running = FALSE]
                /\ pc' = "idle"
                /\ UNCHANGED <<queue, idx, outcome>>
           ELSE /\ ingestion_progress' =
                       [ingestion_progress EXCEPT !.total = Len(q),
                                                  !.phase = "Ingesting company data"]
                /\ queue' = q
                /\ idx' = 1
                /\ outcome' = [id \in {c.id : c \in r.companies} |-> "pending"]
                /\ pc' = IF Len(q) >= 1 THEN "ingest" ELSE "finish"
        /\ UNCHANGED <<income_statements, key_metrics, screener_data, clock,
                       in_income, in_metrics, in_stocks, in_quotes, threads, out, done, session>>

\* Faulty variant: the failure of one company ends the pass.
FailedEndingPass(cid) ==
    /\ ingestion_progress' =
           [ingestion_progress EXCEPT !.current = idx,
                                      !.current_ticker = CompanyById(cid).ticker,
                                      !.errors = @ + 1,
                                      !.last_error = CompanyById(cid).ticker]
    /\ outcome' = [outcome EXCEPT ![cid] = "error"]
    /\ idx' = idx + 1
    /\ pc' = "finish"

\* The except clause of the loop body (lines 428-433) and the move to the next company.
Failed(cid) ==
    /\ ingestion_progress' =
           [ingestion_progress EXCEPT !.current = idx,
                                      !.current_ticker = CompanyById(cid).ticker,
                                      !.errors = @ + 1,
                                      !.last_error = CompanyById(cid).ticker]
    /\ outcome' = [outcome EXCEPT ![cid] = "error"]
    /\ idx' = idx + 1
    /\ pc' = IF idx + 1 <= Len(queue) THEN "ingest" ELSE "finish"

\* Lines 418-421: the loop body up to the commit of ingest_company_data.
PassIngest(p) ==
    LET cid == queue[idx]
        r == IngestCompanyDataResult(companies, income_statements, key_metrics, cid,
                                     p.profile, p.income, p.metrics)
    IN  /\ pc = "ingest"
        /\ companies' = r.companies
        /\ income_statements' = r.income_statements
        /\ key_metrics' = r.key_metrics
        /\ lastOp' = Other
        /\ IF r.raised
           THEN Failed(cid)
           ELSE /\ ingestion_progress' =
                       [ingestion_progress EXCEPT !.current = idx,
                                                  !.current_ticker = CompanyById(cid).ticker]
                /\ pc' = "growth"
                /\ UNCHANGED <<idx, outcome>>
        /\ UNCHANGED <<screener_data, clock, queue, in_income, in_metrics, in_stocks, in_quotes, threads, out, done, session>>

\* Line 422.
PassGrowth ==
    LET cid == queue[idx]
    IN  /\ pc = "growth"
        /\ income_statements' = ComputeRevenueGrowthResult(income_statements, cid)
        /\ lastOp' = Other
        /\ pc' = "compose"
        /\ UNCHANGED <<companies, key_metrics, screener_data, ingestion_progress, clock,
                       queue, idx, outcome, in_income, in_metrics, in_stocks, in_quotes, threads, out, done, session>>

\* Line 423 and the end of the loop body.
PassCompose ==
    LET cid == queue[idx]
        r == Compose(cid)
    IN  /\ pc = "compose"
        /\ clock < MaxClock
        /\ screener_data' = r.screener_data
        /\ income_statements' = r.income_statements
        /\ key_metrics' = r.key_metrics
        /\ clock' = IF r.kind \in {"created", "updated"} THEN clock + 1 ELSE clock
        /\ lastOp' = ComposeOp(cid, r)
        /\ IF r.kind = "raised"
           THEN Failed(cid)
           ELSE /\ outcome' = [outcome EXCEPT ![cid] = "ok"]
                /\ idx' = idx + 1
                /\ pc' = IF idx + 1 <= Len(queue) THEN "ingest" ELSE "finish"
                /\ UNCHANGED ingestion_progress
        /\ UNCHANGED <<companies, queue, in_income, in_metrics, in_stocks, in_quotes, threads, out, done, session>>

\* Lines 435-436 and 443-445.
Finish ==
    /\ pc = "finish"
    /\ ingestion_progress' = [ingestion_progress EXCEPT !.phase = "Complete", !.running = FALSE]
    /\ pc' = "idle"
    /\ lastOp' = Other
    /\ UNCHANGED <<companies, income_statements, key_metrics, screener_data, clock, queue,
                   idx, outcome, in_income, in_metrics, in_stocks, in_quotes, threads, out, done, session>>

Next ==
    \/ Start
    \/ \E all_stocks \in StockLists : PassStockList(all_stocks)
    \/ /\ pc = "ingest"
       /\ \E p \in ProviderData(CompanyById(queue[idx]).ticker) : PassIngest(p)
    \/ PassGrowth
    \/ PassCompose
    \/ Finish
    \/ \E quotes \in QuoteResponses : RunIncrementalUpdate(quotes)

Spec == Init /\ [][Next]_vars


(***************************************************************************)
(* Properties of the composer and of the writers of the Snapshot Store.    *)
(***************************************************************************)
RowsOf(table, cid) == {sd \in table : sd.company_id = cid}

TheRow(table, cid) == CHOOSE sd \in RowsOf(table, cid) : TRUE

HasHistory(cid) ==
    \/ AnnualIncome(income_statements, cid) # <<>>
    \/ AnnualMetrics(key_metrics, cid) # <<>>

\* The record a composition of company cid computes from the current rows.
Recomputed(cid, now) ==
    Values(CompanyById(cid), AnnualIncome(income_statements, cid),
           AnnualMetrics(key_metrics, cid), now)

\* This step is an invocation of compute_screener_data.
ComposeStep == lastOp'.op = "compute"

(***************************************************************************)
(* C1: compute_screener_data for a company with no annual income statement *)
(* and no annual key metric row returns without raising and writes nothing *)
(* to the Snapshot Store: no row is created and every row is unchanged.    *)
(***************************************************************************)
C1_NoHistoryNoWrite ==
    [][ (ComposeStep /\ ~HasHistory(lastOp'.cid))
            => (lastOp'.kind = "skipped" /\ screener_data' = screener_data) ]_vars

C1_Witness ==
    /\ lastOp.op = "compute" /\ lastOp.kind = "skipped"
    /\ ~HasHistory(lastOp.cid)
    /\ screener_data # {}

(***************************************************************************)
(* C2: the Snapshot Store holds at most one row per company; a composition *)
(* that finds no row of the company creates exactly one, and a composition *)
(* that finds one updates that row and adds none.                          *)
(***************************************************************************)
AtMostOneRow == \A c \in companies : Cardinality(RowsOf(screener_data, c.id)) <= 1

C2_OneRowPerCompany ==
    [][ /\ AtMostOneRow'
        /\ (ComposeStep /\ lastOp'.kind = "created")
               => /\ RowsOf(screener_data, lastOp'.cid) = {}
                  /\ Cardinality(screener_data') = Cardinality(screener_data) + 1
        /\ (ComposeStep /\ lastOp'.kind = "updated")
               => /\ {sd.id : sd \in screener_data'} = {sd.id : sd \in screener_data}
                  /\ RowsOf(screener_data, lastOp'.cid) # {} ]_vars

C2_Witness ==
    /\ lastOp.op = "compute" /\ lastOp.kind = "updated"
    /\ Cardinality(RowsOf(screener_data, lastOp.cid)) = 1
    /\ lastOp.changed

(***************************************************************************)
(* C3 as claimed: after a composition for a company that already has a     *)
(* snapshot, with changed statement data, every field of the stored row    *)
(* holds the value computed in this run, and null where the run computes   *)
(* none: no field keeps a value of an earlier run or of another writer.    *)
(***************************************************************************)
ThisRun(cid, f, now) == IF f \in ValueFields THEN Recomputed(cid, now)[f] ELSE NULL

C3_EveryFieldReplacedAsClaimed ==
    [][ (ComposeStep /\ lastOp'.kind = "updated" /\ lastOp'.changed)
            => \A f \in ValueFields \cup UnassignedFields :
                   TheRow(screener_data', lastOp'.cid)[f] = ThisRun(lastOp'.cid, f, clock) ]_vars

(***************************************************************************)
(* C3 as amended: after a composition for a company that already has a     *)
(* snapshot, every field of the values dict holds the value computed in    *)
(* this run, and the other columns (id, company_id, last_price,            *)
(* short_percent_float, short_ratio) keep the value they had; when the run *)
(* raises, the Snapshot Store is unchanged.                                *)
(***************************************************************************)
C3_ComposedFieldsReplaced ==
    [][ (ComposeStep /\ RowsOf(screener_data, lastOp'.cid) # {})
            => IF lastOp'.kind = "raised"
               THEN screener_data' = screener_data
               ELSE LET old == TheRow(screener_data, lastOp'.cid)
                        new == TheRow(screener_data', lastOp'.cid)
                    IN  /\ lastOp'.kind = "updated"
                        /\ DOMAIN new = DOMAIN old
                        /\ \A f \in ValueFields : new[f] = Recomputed(lastOp'.cid, clock)[f]
                        /\ \A f \in DOMAIN old \ ValueFields : new[f] = old[f] ]_vars

C3_Witness ==
    /\ lastOp.op = "compute" /\ lastOp.kind = "updated" /\ lastOp.changed
    /\ ~IsNone(TheRow(screener_data, lastOp.cid).last_price)
    /\ IsNone(TheRow(screener_data, lastOp.cid).gross_margin)

(***************************************************************************)
(* C4 as claimed: in every reachable state, each snapshot whose company    *)
(* was last ingested without error equals, in every field but computed_at, *)
(* the record recomputed from the company's current rows.                  *)
(***************************************************************************)
IngestedWithoutError(cid) == cid \in DOMAIN outcome /\ outcome[cid] = "ok"

EqualsRecomputedBut(sd, excluded) ==
    \A f \in ValueFields \ excluded : sd[f] = Recomputed(sd.company_id, 0)[f]

C5_OnlyComposerWritesAsClaimed ==
    [][ ~ComposeStep => screener_data' = screener_data ]_vars

(***************************************************************************)
(* C5 as amended: compute_screener_data is the only operation that creates *)
(* a ScreenerData row; the only other operation that changes a field of    *)
(* one is run_incremental_update, which changes at most market_cap,        *)
(* last_price and pe_ratio of existing rows.                               *)
(***************************************************************************)
QuoteFields == {"market_cap", "last_price", "pe_ratio"}

C5_WritersOfSnapshots ==
    [][ ~ComposeStep
            => IF lastOp'.op = "quotes"
               THEN /\ Cardinality(screener_data') = Cardinality(screener_data)
                    /\ \A new \in screener_data' :
                          \E old \in screener_data :
                              /\ old.id = new.id
                              /\ DOMAIN old = DOMAIN new
                              /\ \A f \in DOMAIN old \ QuoteFields : new[f] = old[f]
               ELSE screener_data' = screener_data ]_vars

C5_Witness ==
    /\ lastOp.op = "quotes"
    /\ \E sd \in screener_data : ~IsNone(sd.last_price) /\ sd.pe_ratio = Num(5)
    /\ \E c \in companies : RowsOf(screener_data, c.id) = {}

(***************************************************************************)
(* C6: compute_screener_data leaves the Statement Store unchanged: the     *)
(* IncomeStatement and KeyMetric rows and every field of each are the same *)
(* after the invocation as before it.                                      *)
(***************************************************************************)
C6_StatementStoreUnchanged ==
    [][ ComposeStep
            => /\ income_statements' = income_statements
               /\ key_metrics' = key_metrics ]_vars

C6_Witness ==
    /\ lastOp.op = "compute" /\ lastOp.kind \in {"created", "updated"}
    /\ AnnualIncome(income_statements, lastOp.cid) # <<>>
    /\ AnnualMetrics(key_metrics, lastOp.cid) # <<>>

(***************************************************************************)
(* C7: compute_screener_data invoked twice in a row for one company, with  *)
(* nothing in between, yields snapshots that are equal in every field but  *)
(* computed_at, and the second invocation adds no row.                     *)
(***************************************************************************)
C7_Idempotent ==
    [][ (ComposeStep /\ lastOp'.again)
            => /\ lastOp'.kind = "updated"
               /\ Cardinality(screener_data') = Cardinality(screener_data)
               /\ Cardinality(RowsOf(screener_data', lastOp'.cid)) = 1
               /\ SameButComputedAt(TheRow(screener_data, lastOp'.cid),
                                    TheRow(screener_data', lastOp'.cid)) ]_vars

C7_Witness ==
    /\ lastOp.op = "compute" /\ lastOp.again /\ lastOp.kind = "updated"
    /\ TheRow(screener_data, lastOp.cid).computed_at = 2

(***************************************************************************)
(* SpecSeries: one compute_screener_data on a database that holds one      *)
(* company and its two annual series.  One of the two series ranges over   *)
(* every series of at most MaxSeries periods whose ratio fields are in     *)
(* Vals (the three fields of a period carry the series rotated by 0, 1, 2  *)
(* and 3 periods, so that no two fields agree everywhere); the other is a  *)
(* fixed series of another length and other dates.  The forward_pe of the  *)
(* latest key metric row is any value of Vals, whatever its pe_ratio, in   *)
(* the series of at most MaxPeriods periods, and its pe_ratio (what        *)
(* ingest_company_data stores when the provider gives no forwardPE) in the *)
(* longer ones.                                                            *)
(***************************************************************************)
Rot(v, i, k) == v[((i - 1 + k) % Len(v)) + 1]

IncomeRow(date, gross, operating, net) ==
    IncomeStatement(TheCompany.id, date,
        IncomeValues([IncomeItem(DateStr(date, ""), NULL, NULL, NULL)
                          EXCEPT !.grossProfitRatio = gross,
                                 !.operatingIncomeRatio = operating,
                                 !.netIncomeRatio = net]))

MetricRow(date, pe, forward_pe, ev_ebitda, roic, roe) ==
    [ KeyMetric(TheCompany.id, date,
          MetricValues([MetricItem(DateStr(date, ""), pe, NULL, NULL)
                            EXCEPT !.enterpriseValueOverEBITDA = ev_ebitda,
                                   !.roic = roic, !.roe = roe]))
          EXCEPT !.forward_pe = forward_pe ]

\* The rows of the income series whose gross margins are v, latest first.
IncomeRatioRows(v) ==
    { IncomeRow(Len(v) - i + 1, v[i], Rot(v, i, 1), Rot(v, i, 2)) : i \in 1..Len(v) }

\* The rows of the key metric series whose P/E ratios are v, latest first; the
\* latest row has the forward P/E fpe.
MetricRows(v, fpe) ==
    { MetricRow(10 + Len(v) - i + 1, v[i], IF i = 1 THEN fpe ELSE v[i],
                Rot(v, i, 1), Rot(v, i, 2), Rot(v, i, 3)) : i \in 1..Len(v) }

FixedIncomeRows == IncomeRatioRows(<<Num(1), Num(-1)>>)

FixedMetricRows == MetricRows(<<Num(1), NULL, Num(-1)>>, NULL)

InitSeries ==
    /\ companies = {TheCompany}
    /\ \E n \in 0..MaxSeries :
         \E v \in [1..n -> Vals] :
            \/ /\ income_statements = IncomeRatioRows(v)
               /\ key_metrics = FixedMetricRows
            \/ /\ income_statements = FixedIncomeRows
               /\ \E fpe \in (IF n <= MaxPeriods THEN Vals ELSE {v[1]}) :
                     key_metrics = MetricRows(v, fpe)
    /\ screener_data = {}
    /\ ingestion_progress = NoProgress
    /\ clock = 1
    /\ pc = "idle"
    /\ queue = <<>>
    /\ idx = 0
    /\ lastOp = NoOp
    /\ outcome = <<>>
    /\ in_income = <<>>
    /\ in_metrics = <<>>
    /\ out = NoOut
    /\ done = FALSE
    /\ session = NoSession
    /\ in_stocks = <<>>
    /\ in_quotes = <<>>
    /\ threads = NoThreads

\* compute_screener_data(db, company) for the one company.
ComposeStored ==
    LET r == Compose(TheCompany.id)
    IN  /\ ~done
        /\ screener_data' = r.screener_data
        /\ income_statements' = r.income_statements
        /\ key_metrics' = r.key_metrics
        /\ clock' = clock + 1
        /\ lastOp' = ComposeOp(TheCompany.id, r)
        /\ done' = TRUE
        /\ UNCHANGED <<companies, ingestion_progress, pc, queue, idx, outcome,
                       in_income, in_metrics, in_stocks, in_quotes, threads, out, session>>

NextSeries == ComposeStored

SpecSeries == InitSeries /\ [][NextSeries]_vars

\* The periods of a series that follow its most recent period, up to five.
WindowOf(rows) ==
    { r \in rows : Cardinality({x \in rows : x.date > r.date}) \in 1..5 }

RECURSIVE SumOver(_, _)
SumOver(S, f) ==
    IF S = {} THEN Num(0)
    ELSE LET r == CHOOSE x \in S : TRUE
         IN  VAdd(r[f], SumOver(S \ {r}, f))

\* The arithmetic mean of the non-null values of field f over the rows S.
MeanOver(S, f) ==
    LET nonNull == {r \in S : ~IsNone(r[f])}
    IN  IF nonNull = {} THEN NULL
        ELSE VDiv(SumOver(nonNull, f), Num(Cardinality(nonNull)))

LatestOf(rows) == CHOOSE r \in rows : \A x \in rows : x.date <= r.date

OldestOf(rows) == CHOOSE r \in rows : \A x \in rows : r.date <= x.date

(***************************************************************************)
(* C11: each of the seven five-year averages is the arithmetic mean of the *)
(* field's non-null values over the up to five periods that follow the     *)
(* most recent period of the date-descending series (the most recent       *)
(* period and the periods beyond the sixth are not in it), and null when   *)
(* that window holds no non-null value; the margins are averaged over the  *)
(* income series, the other four over the key metric series.               *)
(***************************************************************************)
C11_FiveYearAverages ==
    done =>
        LET sd == TheRow(screener_data, TheCompany.id)
            inc == WindowOf(income_statements)
            met == WindowOf(key_metrics)
        IN  /\ RowsOf(screener_data, TheCompany.id) # {}
            /\ sd.pe_5yr_avg = MeanOver(met, "pe_ratio")
            /\ sd.ev_ebitda_5yr_avg = MeanOver(met, "ev_to_ebitda")
            /\ sd.roic_5yr_avg = MeanOver(met, "roic")
            /\ sd.roe_5yr_avg = MeanOver(met, "roe")
            /\ sd.gross_margin_5yr_avg = MeanOver(inc, "gross_profit_ratio")
            /\ sd.operating_margin_5yr_avg = MeanOver(inc, "operating_income_ratio")
            /\ sd.net_margin_5yr_avg = MeanOver(inc, "net_income_ratio")

C11_Witness ==
    /\ done
    /\ Cardinality(key_metrics) = 7
    /\ Cardinality(income_statements) = 2
    /\ LatestOf(key_metrics).pe_ratio = Num(-1)
    /\ OldestOf(key_metrics).pe_ratio = Num(-1)
    /\ \E r \in WindowOf(key_metrics) : IsNone(r.pe_ratio)
    /\ TheRow(screener_data, TheCompany.id).pe_5yr_avg = Num(1)
    /\ TheRow(screener_data, TheCompany.id).gross_margin_5yr_avg = Num(-1)

(***************************************************************************)
(* C12: each of the six *_vs_5yr_pct fields is (current - average) /       *)
(* abs(average) of its current value and its five-year average, and null   *)
(* exactly when the current value is null, the average is null or the      *)
(* average is zero, with the same rule for the six of them.  The current   *)
(* value paired with pe_5yr_avg is forward_pe or pe_ratio (which of the    *)
(* two is the matter of C13).                                              *)
(***************************************************************************)
PercentVsAverage(current, average) ==
    IF IsNone(current) \/ IsNone(average) \/ average = Num(0) THEN NULL
    ELSE VDiv(VSub(current, average), VAbs(average))

C12_PercentVsAverage ==
    done =>
        LET sd == TheRow(screener_data, TheCompany.id)
        IN  /\ sd.ev_ebitda_vs_5yr_pct = PercentVsAverage(sd.ev_to_ebitda, sd.ev_ebitda_5yr_avg)
            /\ sd.gross_margin_vs_5yr_pct =
                   PercentVsAverage(sd.gross_margin, sd.gross_margin_5yr_avg)
            /\ sd.operating_margin_vs_5yr_pct =
                   PercentVsAverage(sd.operating_margin, sd.operating_margin_5yr_avg)
            /\ sd.roic_vs_5yr_pct = PercentVsAverage(sd.roic, sd.roic_5yr_avg)
            /\ sd.roe_vs_5yr_pct = PercentVsAverage(sd.roe, sd.roe_5yr_avg)
            /\ sd.forward_pe_vs_5yr_pct \in
                   { PercentVsAverage(sd.forward_pe, sd.pe_5yr_avg),
                     PercentVsAverage(sd.pe_ratio, sd.pe_5yr_avg) }

C12_Witness ==
    /\ done
    /\ LET sd == TheRow(screener_data, TheCompany.id)
       IN  /\ sd.ev_to_ebitda = Num(0)
           /\ ~IsNone(sd.ev_ebitda_vs_5yr_pct)
           /\ sd.roic_5yr_avg = Num(0)
           /\ ~IsNone(sd.roic)
           /\ IsNone(sd.roic_vs_5yr_pct)
           /\ sd.gross_margin_vs_5yr_pct = Num(2)

ValueOrder ==
    << "ticker", "name", "exchange", "country", "sector", "industry",
       "market_cap", "enterprise_value", "pe_ratio", "forward_pe", "price_to_sales",
       "price_to_book", "ev_to_ebitda", "ev_to_revenue", "gross_margin",
       "operating_margin", "net_margin", "ebitda_margin", "roic", "roe", "roa",
       "revenue_growth_yoy", "revenue_growth_3yr_cagr", "earnings_growth_yoy",
       "debt_to_equity", "net_debt_to_ebitda", "current_ratio", "pe_5yr_avg",
       "ev_ebitda_5yr_avg", "gross_margin_5yr_avg", "operating_margin_5yr_avg",
       "net_margin_5yr_avg", "roic_5yr_avg", "roe_5yr_avg", "forward_pe_vs_5yr_pct",
       "ev_ebitda_vs_5yr_pct", "gross_margin_vs_5yr_pct", "operating_margin_vs_5yr_pct",
       "roic_vs_5yr_pct", "roe_vs_5yr_pct", "computed_at" >>

\* Faulty variant: an assignment to an object of the session is stored at once.
SessionWriteThrough(stable, old, new) == (stable \ {old}) \cup {new}

\* The committed table after the session changed an object from old to new,
\* or added new: nothing is stored before the commit (autocommit=False).
SessionWrite(stable, old, new) == stable

InitTxn ==
    /\ companies = {TheCompany}
    /\ income_statements = {}
    /\ key_metrics = {}
    /\ screener_data = {}
    /\ ingestion_progress = NoProgress
    /\ clock = 1
    /\ pc = "idle"
    /\ queue = <<>>
    /\ idx = 0
    /\ lastOp = NoOp
    /\ outcome = <<>>
    /\ in_income = <<>>
    /\ in_metrics = <<>>
    /\ out = NoOut
    /\ done = FALSE
    /\ session = NoSession
    /\ in_stocks = <<>>
    /\ in_quotes = <<>>
    /\ threads = NoThreads

\* compute_screener_data up to line 373: the queries and the values dict.
TxnBegin(cid) ==
    LET inc == AnnualIncome(income_statements, cid)
        met == AnnualMetrics(key_metrics, cid)
        values == Values(CompanyById(cid), inc, met, clock)
        existing == ExistingSnapshot(screener_data, cid)
    IN  /\ pc = "idle"
        /\ clock < MaxClock
        /\ ~(First(inc) = <<>> /\ First(met) = <<>>)
        /\ session' = [ cid |-> cid, values |-> values, existing |-> existing,
                        row |-> IF existing # <<>> THEN existing[1] ELSE NoOut,
                        todo |-> IF existing # <<>> THEN ValueOrder ELSE <<>> ]
        /\ pc' = IF existing # <<>> THEN "assign" ELSE "add"
        /\ lastOp' = Other
        /\ UNCHANGED <<companies, income_statements, key_metrics, screener_data,
                       ingestion_progress, clock, queue, idx, outcome,
                       in_income, in_metrics, in_stocks, in_quotes, threads, out, done>>

\* One turn of the loop of lines 376-377: setattr(existing, k, v).
TxnSetAttr ==
    LET k == Head(session.todo)
        new == [session.row EXCEPT ![k] = session.values[k]]
    IN  /\ pc = "assign"
        /\ session' = [session EXCEPT !.row = new, !.todo = Tail(@)]
        /\ screener_data' = SessionWrite(screener_data, session.row, new)
        /\ pc' = IF Tail(session.todo) = <<>> THEN "commit" ELSE "assign"
        /\ UNCHANGED <<companies, income_statements, key_metrics, ingestion_progress,
                       clock, queue, idx, lastOp, outcome, in_income, in_metrics, in_stocks, in_quotes, threads, out, done>>

\* Lines 379-380: sd = ScreenerData(company_id=company.id, **values); db.add(sd).
TxnAdd ==
    LET new == ScreenerData(NextId(screener_data, 1), session.cid, session.values)
    IN  /\ pc = "add"
        /\ session' = [session EXCEPT !.row = new]
        /\ screener_data' = SessionWrite(screener_data, session.row, new)
        /\ pc' = "commit"
        /\ UNCHANGED <<companies, income_statements, key_metrics, ingestion_progress,
                       clock, queue, idx, lastOp, outcome, in_income, in_metrics, in_stocks, in_quotes, threads, out, done>>

\* Line 382: db.commit().  The flush stores the row, or raises and stores nothing.
TxnCommit ==
    LET stored == Storable(session.values)
        kind == IF ~stored THEN "raised"
                ELSE IF session.existing # <<>> THEN "updated" ELSE "created"
    IN  /\ pc = "commit"
        /\ screener_data' =
               IF stored
               THEN (screener_data \ SeqToSet(session.existing)) \cup {session.row}
               ELSE screener_data
        /\ clock' = IF stored THEN clock + 1 ELSE clock
        /\ lastOp' = [ op |-> "compute", cid |-> session.cid, kind |-> kind,
                       changed |-> FALSE, again |-> FALSE ]
        /\ session' = NoSession
        /\ pc' = "idle"
        /\ UNCHANGED <<companies, income_statements, key_metrics, ingestion_progress,
                       queue, idx, outcome, in_income, in_metrics, in_stocks, in_quotes, threads, out, done>>

NextTxn ==
    \/ \E c \in companies :
         \E p \in ProviderData(c.ticker) :
              IngestCompanyData(c.id, p.profile, p.income, p.metrics)
    \/ /\ pc = "idle"
       /\ \E quotes \in QuoteResponses : RunIncrementalUpdate(quotes)
    \/ \E c \in companies : TxnBegin(c.id)
    \/ TxnSetAttr
    \/ TxnAdd
    \/ TxnCommit

SpecTxn == InitTxn /\ [][NextTxn]_vars

(***************************************************************************)
(* C14: the write of a snapshot is atomic.  The record is assembled before *)
(* the store changes; the committed table, which is what a concurrent      *)
(* reader sees, does not change while the composer assigns field after     *)
(* field; the commit replaces the row by the whole new record in one step  *)
(* (the result of compute_screener_data taken as one transaction), and a   *)
(* commit that raises leaves the committed table as it was.                *)
(***************************************************************************)
C14_AtomicWrite ==
    [][ (pc # "idle" \/ pc' # "idle")
            => IF pc = "commit"
               THEN LET r == ComputeScreenerDataResult(companies, income_statements,
                                 key_metrics, screener_data, session.cid, clock)
                    IN  /\ lastOp'.kind = r.kind
                        /\ screener_data' = r.screener_data
                        /\ r.kind = "raised" => screener_data' = screener_data
                        /\ r.kind # "raised" =>
                               \A f \in ValueFields :
                                   TheRow(screener_data', session.cid)[f] = session.values[f]
               ELSE screener_data' = screener_data ]_vars

C14_Witness ==
    /\ pc = "assign"
    /\ Len(session.todo) = 1
    /\ session.values.gross_margin # session.existing[1].gross_margin
    /\ session.values.industry # session.existing[1].industry
    /\ session.row.gross_margin = session.values.gross_margin
    /\ TheRow(screener_data, session.cid) = session.existing[1]

(***************************************************************************)
(* C15 as claimed: for every well-typed input compute_screener_data        *)
(* completes without raising, and every growth figure, average and         *)
(* deviation it writes is null or a real number; a division by zero or a   *)
(* non-positive base of the cube root of the 3-year CAGR gives null.       *)
(***************************************************************************)
IsNullOrReal(v) == v.k \in {"null", "num", "root3m1"}

C15_NeverRaisesAsClaimed ==
    done => /\ \A f \in NumericFields : IsNullOrReal(out[f])
            /\ Storable(out)

(***************************************************************************)
(* Properties of the full ingestion pass.                                  *)
(***************************************************************************)
\* The pass is in the body of its loop over the companies.
InLoop == pc \in {"ingest", "growth", "compose"}

\* This step is the one in which the processing of the current company fails.
FailureStep ==
    /\ InLoop
    /\ outcome[queue[idx]] = "pending"
    /\ outcome'[queue[idx]] = "error"

ErrorsOf(o) == Cardinality({c \in DOMAIN o : o[c] = "error"})

MergeDates ==
    { DateStr(2, ""), DateStr(2, " 00:00:00"), DateStr(3, ""), DateStr(3, " 00:00:00"),
      DateStr(0, "") }

IncomeItems ==
    { IncomeItem(d, revenue, NULL, ratio) : d \in MergeDates, revenue \in Vals,
                                            ratio \in {NULL, Num(1)} }

MetricItems ==
    { MetricItem(d, pe, forward_pe, NULL) : d \in MergeDates, pe \in Vals,
                                            forward_pe \in Vals }

\* The two stored periods of each series, as an earlier ingestion and
\* compute_revenue_growth left them.
StoredIncome ==
    ComputeRevenueGrowthResult(
        { IncomeStatement(TheCompany.id, 1,
              IncomeValues(IncomeItem(DateStr(1, ""), Num(1), Num(1), Num(1)))),
          IncomeStatement(TheCompany.id, 2,
              IncomeValues(IncomeItem(DateStr(2, ""), Num(2), Num(1), Num(1)))) },
        TheCompany.id)

StoredMetrics ==
    { KeyMetric(TheCompany.id, 1, MetricValues(MetricItem(DateStr(1, ""), Num(1), Num(1), Num(1)))),
      KeyMetric(TheCompany.id, 2, MetricValues(MetricItem(DateStr(2, ""), Num(1), Num(2), Num(1)))) }

InitMerge ==
    /\ companies = {TheCompany}
    /\ \/ income_statements = {} /\ key_metrics = {}
       \/ income_statements = StoredIncome /\ key_metrics = StoredMetrics
    /\ \E n \in 0..MaxItems :
          \/ /\ \E items \in [1..n -> IncomeItems] : in_income = items
             /\ in_metrics = <<>>
          \/ /\ in_income = <<>>
             /\ \E items \in [1..n -> MetricItems] : in_metrics = items
    /\ screener_data = {}
    /\ ingestion_progress = NoProgress
    /\ clock = 1
    /\ pc = "idle"
    /\ queue = <<>>
    /\ idx = 0
    /\ lastOp = NoOp
    /\ outcome = <<>>
    /\ out = NoOut
    /\ done = FALSE
    /\ session = NoSession
    /\ in_stocks = <<>>
    /\ in_quotes = <<>>
    /\ threads = NoThreads

\* The days of the items of a response that have a stored row.
Reingested(rows, data) ==
    { parse_date(data[i].date) : i \in 1..Len(data) } \cap { r.date : r \in rows }

\* ingest_company_data(db, company), the provider returning no profile and the
\* two responses in_income and in_metrics.
MergeIsolated ==
    LET r == IngestCompanyDataResult(companies, income_statements, key_metrics,
                                     TheCompany.id, NoProfile, in_income, in_metrics)
    IN  /\ ~done
        /\ companies' = r.companies
        /\ income_statements' = r.income_statements
        /\ key_metrics' = r.key_metrics
        /\ lastOp' = [ op |-> "ingest", cid |-> TheCompany.id,
                       kind |-> IF r.raised THEN "raised" ELSE "ok",
                       changed |-> \/ Reingested(income_statements, in_income) # {}
                                   \/ Reingested(key_metrics, in_metrics) # {},
                       again |-> FALSE ]
        /\ done' = TRUE
        /\ UNCHANGED <<screener_data, ingestion_progress, clock, pc, queue, idx, outcome,
                       in_income, in_metrics, in_stocks, in_quotes, threads, out, session>>

NextMerge == MergeIsolated

SpecMerge == InitMerge /\ [][NextMerge]_vars

\* The provider key from which each ingested field of an income statement is read.
IncomeKeys ==
    [ revenue |-> "revenue", cost_of_revenue |-> "costOfRevenue",
      gross_profit |-> "grossProfit", gross_profit_ratio |-> "grossProfitRatio",
      operating_income |-> "operatingIncome",
      operating_income_ratio |-> "operatingIncomeRatio", ebitda |-> "ebitda",
      ebitda_ratio |-> "ebitdaratio", net_income |-> "netIncome",
      net_income_ratio |-> "netIncomeRatio", calendar_year |-> "calendarYear" ]

\* The same for a key metric row, but for forward_pe.
MetricKeys ==
    [ calendar_year |-> "calendarYear", pe_ratio |-> "peRatio",
      price_to_sales |-> "priceToSalesRatio", price_to_book |-> "pbRatio",
      ev_to_ebitda |-> "enterpriseValueOverEBITDA", ev_to_revenue |-> "evToRevenue",
      enterprise_value |-> "enterpriseValue", market_cap |-> "marketCap",
      roic |-> "roic", roe |-> "roe", roa |-> "returnOnAssets",
      revenue_per_share |-> "revenuePerShare", earnings_per_share |-> "earningsYield",
      free_cash_flow_per_share |-> "freeCashFlowPerShare",
      book_value_per_share |-> "bookValuePerShare",
      dividends_per_share |-> "dividendYield", debt_to_equity |-> "debtToEquity",
      net_debt_to_ebitda |-> "netDebtToEBITDA", current_ratio |-> "currentRatio",
      interest_coverage |-> "interestCoverage" ]

\* The last item of a response that is dated on day d.
LastItemOn(data, d) ==
    LET i == CHOOSE k \in 1..Len(data) :
                 /\ parse_date(data[k].date) = d
                 /\ \A j \in 1..Len(data) : parse_date(data[j].date) = d => j <= k
    IN  data[i]

\* Each stored row that the response re-ingests is still the one row of its
\* key, and each field of Keys holds what the response gives for its key.
Overwritten(before, after, data, Keys) ==
    \A d \in Reingested(before, data) :
        /\ Cardinality({r \in after : r.date = d}) = 1
        /\ \A r \in after :
              r.date = d => \A f \in DOMAIN Keys : r[f] = LastItemOn(data, d)[Keys[f]]

IngestStep == lastOp'.op = "ingest" /\ lastOp'.kind = "ok"

UniqueKeys(rows) ==
    \A a, b \in rows :
        (a.company_id = b.company_id /\ a.date = b.date /\ a.period = b.period) => a = b

C19_DuplicateDatesMergedAsClaimed ==
    done => /\ UniqueKeys(income_statements)
            /\ UniqueKeys(key_metrics)
            /\ lastOp.kind # "raised"

(***************************************************************************)
(* C20: compositions for different companies do not interact.  In every    *)
(* state of the pipeline, compute_screener_data for a company gives the    *)
(* same result on the statement rows of that company alone as on the whole *)
(* Statement Store, creates or changes the snapshot row of that company    *)
(* only, and composing any two companies in one order or the other gives   *)
(* the same Snapshot Store, computed_at and the row ids that the database  *)
(* assigns in the order of creation aside.                                 *)
(***************************************************************************)
ComposeIn(stable, cid, now) ==
    ComputeScreenerDataResult(companies, income_statements, key_metrics, stable, cid, now)

\* A table without the ids and the time stamps of its rows.
Snapshots(stable) ==
    { [f \in DOMAIN sd \ {"id", "computed_at"} |-> sd[f]] : sd \in stable }

C20_CompaniesIndependent ==
    \A a \in CompanyIds :
        LET ra == ComposeIn(screener_data, a, clock)
            alone == ComputeScreenerDataResult(companies,
                         {s \in income_statements : s.company_id = a},
                         {m \in key_metrics : m.company_id = a},
                         screener_data, a, clock)
        IN  /\ alone.kind = ra.kind
            /\ alone.screener_data = ra.screener_data
            /\ {sd \in ra.screener_data : sd.company_id # a} =
                   {sd \in screener_data : sd.company_id # a}
            /\ \A b \in CompanyIds \ {a} :
                  LET rb == ComposeIn(screener_data, b, clock)
                  IN  Snapshots(ComposeIn(ra.screener_data, b, clock + 1).screener_data) =
                          Snapshots(ComposeIn(rb.screener_data, a, clock + 1).screener_data)

C20_Witness ==
    /\ lastOp.op = "compute" /\ lastOp.kind = "created" /\ lastOp.cid = 1
    /\ Cardinality(screener_data) = 2
    /\ TheRow(screener_data, 2).computed_at < TheRow(screener_data, 1).computed_at
    /\ TheRow(screener_data, 2).id < TheRow(screener_data, 1).id
    /\ ~IsNone(TheRow(screener_data, 1).pe_5yr_avg)

(***************************************************************************)
(* One ingest_stock_list on a Company table that holds two companies or    *)
(* none: the provider's list is any sequence of at most MaxStocks of the   *)
(* items below, the same item or the same pair more than once included.    *)
(***************************************************************************)
MaxStocks == 3

StockItems ==
    { Stock("A", "NYSE", "stock", "Alpha", "New York Stock Exchange"),
      Stock("A", "NYSE", ABSENT, "Alpha Inc", ABSENT),
      Stock("A", "NASDAQ", "stock", "Alpha at Nasdaq", "Nasdaq"),
      Stock("D", "NYSE", "stock", "Delta", "New York Stock Exchange"),
      Stock("D", "NYSE", "stock", "Delta Corp", ABSENT),
      Stock("C", "OTC", "stock", "Gamma", "Other OTC"),
      Stock("E", "NYSE", "etf", "Fund", "New York Stock Exchange") }

\* The table an earlier pass left: A at NYSE and B at NASDAQ.
StoredCompanies ==
    IngestStockListResult({}, << Stock("A", "NYSE", "stock", "Alpha", "New York Stock Exchange"),
                                 Stock("B", "NASDAQ", ABSENT, ABSENT, "Nasdaq") >>).companies

InitStocks ==
    /\ companies \in {{}, StoredCompanies}
    /\ \E n \in 0..MaxStocks : \E items \in [1..n -> StockItems] : in_stocks = items
    /\ income_statements = {}
    /\ key_metrics = {}
    /\ screener_data = {}
    /\ ingestion_progress = NoProgress
    /\ clock = 1
    /\ pc = "idle"
    /\ queue = <<>>
    /\ idx = 0
    /\ lastOp = NoOp
    /\ outcome = <<>>
    /\ in_income = <<>>
    /\ in_metrics = <<>>
    /\ in_quotes = <<>>
    /\ threads = NoThreads
    /\ out = NoOut
    /\ done = FALSE
    /\ session = NoSession

\* ingest_stock_list(db), the provider returning in_stocks.
StockListIsolated ==
    LET r == IngestStockListResult(companies, in_stocks)
    IN  /\ ~done
        /\ companies' = r.companies
        /\ lastOp' = [ op |-> "stocks", cid |-> 0,
                       kind |-> IF r.raised THEN "raised" ELSE "ok",
                       changed |-> r.companies # companies, again |-> FALSE ]
        /\ done' = TRUE
        /\ UNCHANGED <<income_statements, key_metrics, screener_data, ingestion_progress,
                       clock, pc, queue, idx, outcome, in_income, in_metrics, in_stocks,
                       in_quotes, threads, out, session>>

NextStocks == StockListIsolated

SpecStocks == InitStocks /\ [][NextStocks]_vars

\* The rows of a Company table with the pair (ticker, exchange_short) of a stock.
RowsWithKey(table, stock) ==
    {c \in table : <<c.ticker, c.exchange_short>> = StockKey(stock)}

\* No two Company rows share (ticker, exchange_short).
UniqueCompanyKeys(table) ==
    \A c1, c2 \in table :
        <<c1.ticker, c1.exchange_short>> = <<c2.ticker, c2.exchange_short>> => c1 = c2

\* The last item of a list with the pair of a stock.
LastListed(listed, stock) ==
    listed[CHOOSE i \in 1..Len(listed) :
               /\ StockKey(listed[i]) = StockKey(stock)
               /\ \A j \in (i + 1)..Len(listed) : StockKey(listed[j]) # StockKey(stock)]

StockListStep == ~done /\ done' /\ lastOp'.op = "stocks"

\* C21: after an ingest_stock_list pass, whatever the provider's list (the same
\* (symbol, exchangeShortName) pair more than once included), no two Company rows
\* share (ticker, exchange_short); every row of before is still there under its id
\* and its pair (no row is deleted); a listed company that existed is that same
\* row, with the name the list gives; a listed company that did not exist has
\* exactly one row.
C21_UpsertOnceAsClaimed ==
    [][ StockListStep =>
          LET listed == FilterStocks(in_stocks)
          IN  /\ UniqueCompanyKeys(companies')
              /\ \A c \in companies : \E c2 \in companies' :
                     /\ c2.id = c.id
                     /\ c2.ticker = c.ticker
                     /\ c2.exchange_short = c.exchange_short
              /\ \A i \in 1..Len(listed) :
                     /\ Cardinality(RowsWithKey(companies', listed[i])) = 1
                     /\ \A c \in RowsWithKey(companies, listed[i]) :
                            \E c2 \in RowsWithKey(companies', listed[i]) :
                                /\ c2.id = c.id
                                /\ c2.name = Get(LastListed(listed, listed[i]).name, c.name) ]_vars

(***************************************************************************)
(* The snapshot fields by the series they are read from.                   *)
(***************************************************************************)
\* snapshot field :> field of the latest income statement it copies
IncomeCurrent ==
    [ gross_margin |-> "gross_profit_ratio", operating_margin |-> "operating_income_ratio",
      net_margin |-> "net_income_ratio", ebitda_margin |-> "ebitda_ratio" ]

\* snapshot field :> field of the latest key metric row it copies
MetricCurrent ==
    [ market_cap |-> "market_cap", enterprise_value |-> "enterprise_value",
      pe_ratio |-> "pe_ratio", forward_pe |-> "forward_pe",
      price_to_sales |-> "price_to_sales", price_to_book |-> "price_to_book",
      ev_to_ebitda |-> "ev_to_ebitda", ev_to_revenue |-> "ev_to_revenue",
      roic |-> "roic", roe |-> "roe", roa |-> "roa",
      debt_to_equity |-> "debt_to_equity", net_debt_to_ebitda |-> "net_debt_to_ebitda",
      current_ratio |-> "current_ratio" ]

\* The growth figures, averages and deviations computed from the income series.
IncomeDerived ==
    { "revenue_growth_yoy", "revenue_growth_3yr_cagr", "earnings_growth_yoy",
      "gross_margin_5yr_avg", "operating_margin_5yr_avg", "net_margin_5yr_avg",
      "gross_margin_vs_5yr_pct", "operating_margin_vs_5yr_pct" }

\* The averages and deviations computed from the key metric series.
MetricDerived ==
    { "pe_5yr_avg", "ev_ebitda_5yr_avg", "roic_5yr_avg", "roe_5yr_avg",
      "forward_pe_vs_5yr_pct", "ev_ebitda_vs_5yr_pct", "roic_vs_5yr_pct", "roe_vs_5yr_pct" }

(***************************************************************************)
(* C22: the latest income statement and the latest key metric row are      *)
(* chosen independently.  A snapshot is written whenever one of the two    *)
(* series has a period, whatever the dates of the two latest periods (in   *)
(* SpecSeries they always differ); when the income series is empty every   *)
(* field read from it (current margins, growth figures, its averages and   *)
(* deviations) is null and the current fields of the key metric series     *)
(* carry the values of its latest row, and the other way round when the    *)
(* key metric series is empty.                                             *)
(***************************************************************************)
C22_SeriesIndependent ==
    done /\ (income_statements # {} \/ key_metrics # {}) =>
        /\ lastOp.kind = "created"
        /\ RowsOf(screener_data, TheCompany.id) # {}
        /\ LET sd == TheRow(screener_data, TheCompany.id)
           IN  /\ income_statements = {} =>
                     \A f \in DOMAIN IncomeCurrent \cup IncomeDerived : IsNone(sd[f])
               /\ income_statements # {} =>
                     \A f \in DOMAIN IncomeCurrent :
                         sd[f] = LatestOf(income_statements)[IncomeCurrent[f]]
               /\ key_metrics = {} =>
                     \A f \in DOMAIN MetricCurrent \cup MetricDerived : IsNone(sd[f])
               /\ key_metrics # {} =>
                     \A f \in DOMAIN MetricCurrent :
                         sd[f] = LatestOf(key_metrics)[MetricCurrent[f]]

\* No income statement at all, and the snapshot carries the key metric fields,
\* their averages and their deviations.
C22_Witness ==
    /\ done
    /\ income_statements = {}
    /\ Cardinality(key_metrics) = 3
    /\ LET sd == TheRow(screener_data, TheCompany.id)
       IN  /\ IsNone(sd.gross_margin)
           /\ IsNone(sd.gross_margin_5yr_avg)
           /\ sd.pe_ratio = Num(1)
           /\ sd.pe_5yr_avg = Num(-1)
           /\ sd.forward_pe_vs_5yr_pct = Num(2)

\* five-year average :> the field of the series it averages
IncomeAverages ==
    [ gross_margin_5yr_avg |-> "gross_profit_ratio",
      operating_margin_5yr_avg |-> "operating_income_ratio",
      net_margin_5yr_avg |-> "net_income_ratio" ]

MetricAverages ==
    [ pe_5yr_avg |-> "pe_ratio", ev_ebitda_5yr_avg |-> "ev_to_ebitda",
      roic_5yr_avg |-> "roic", roe_5yr_avg |-> "roe" ]

\* deviation :> <<field of the latest row that is its current value, its average>>
IncomeDeviations ==
    [ gross_margin_vs_5yr_pct |-> <<"gross_profit_ratio", "gross_margin_5yr_avg">>,
      operating_margin_vs_5yr_pct |-> <<"operating_income_ratio", "operating_margin_5yr_avg">> ]

MetricDeviations ==
    [ forward_pe_vs_5yr_pct |-> <<"forward_pe", "pe_5yr_avg">>,
      ev_ebitda_vs_5yr_pct |-> <<"ev_to_ebitda", "ev_ebitda_5yr_avg">>,
      roic_vs_5yr_pct |-> <<"roic", "roic_5yr_avg">>,
      roe_vs_5yr_pct |-> <<"roe", "roe_5yr_avg">> ]

\* A zero in the window of an average is counted in it.
ZeroCounted(sd, rows, averages) ==
    \A a \in DOMAIN averages :
        (\E r \in WindowOf(rows) : r[averages[a]] = Num(0))
            => sd[a] = MeanOver(WindowOf(rows), averages[a])

\* A zero current field of the latest row is copied as 0.
ZeroCopied(sd, rows, current) ==
    \A f \in DOMAIN current :
        (rows # {} /\ LatestOf(rows)[current[f]] = Num(0)) => sd[f] = Num(0)

\* A zero current value with a non-null, non-zero average has a deviation.
ZeroDeviates(sd, rows, deviations) ==
    \A p \in DOMAIN deviations :
        ( /\ rows # {}
          /\ LatestOf(rows)[deviations[p][1]] = Num(0)
          /\ ~IsNone(sd[deviations[p][2]])
          /\ sd[deviations[p][2]] # Num(0) ) => ~IsNone(sd[p])

Threads == {"scheduler", "endpoint"}

\* A thread that is not running run_full_ingestion.
IdleThread == [pc |-> "idle", queue |-> <<>>, idx |-> 0, raised |-> 0]

\* What the provider returns for a company during a pass: one period, or twice
\* the same new day (the commit of ingest_company_data then raises).
ThreadResponses ==
    { Responses(NoProfile, << IncomeItem(DateStr(1, ""), Num(1), Num(1), Num(1)) >>, <<>>),
      Responses(NoProfile, << IncomeItem(DateStr(2, ""), Num(1), Num(1), Num(1)),
                              IncomeItem(DateStr(2, " 00:00:00"), Num(1), Num(1), Num(1)) >>,
                <<>>) }

InitThreads ==
    /\ companies = {}
    /\ income_statements = {}
    /\ key_metrics = {}
    /\ screener_data = {}
    /\ ingestion_progress = NoProgress
    /\ clock = 1
    /\ pc = "idle"
    /\ queue = <<>>
    /\ idx = 0
    /\ lastOp = NoOp
    /\ outcome = <<>>
    /\ in_income = <<>>
    /\ in_metrics = <<>>
    /\ in_stocks = <<>>
    /\ in_quotes = <<>>
    /\ threads = [t \in Threads |-> IdleThread]
    /\ out = NoOut
    /\ done = FALSE
    /\ session = NoSession

Skipped == [op |-> "check", cid |-> 0, kind |-> "skipped", changed |-> FALSE, again |-> FALSE]

\* Line 393: the thread enters run_full_ingestion and tests running; lines
\* 394-395 when it is set.
ThreadCheck(t) ==
    /\ threads[t].pc = "idle"
    /\ IF ingestion_progress.running
       THEN /\ lastOp' = Skipped
            /\ UNCHANGED threads
       ELSE /\ lastOp' = Other
            /\ threads' = [threads EXCEPT ![t].pc = "update"]
    /\ UNCHANGED <<companies, income_statements, key_metrics, screener_data,
                   ingestion_progress, clock, pc, queue, idx, outcome, in_income,
                   in_metrics, in_stocks, in_quotes, out, done, session>>

\* Lines 397-403.
ThreadUpdate(t) ==
    /\ threads[t].pc = "update"
    /\ ingestion_progress' =
           [ running |-> TRUE, phase |-> "Loading stock list", current |-> 0, total |-> 0,
             current_ticker |-> "", errors |-> 0, started_at |-> clock, last_error |-> "" ]
    /\ threads' = [threads EXCEPT ![t] = [IdleThread EXCEPT !.pc = "list"]]
    /\ lastOp' = Other
    /\ UNCHANGED <<companies, income_statements, key_metrics, screener_data, clock, pc,
                   queue, idx, outcome, in_income, in_metrics, in_stocks, in_quotes, out,
                   done, session>>

\* Lines 406-414, and lines 438-441 when ingest_stock_list raises.
ThreadStockList(t, all_stocks) ==
    LET r == IngestStockListResult(companies, all_stocks)
        q == ActiveCompanyIds(r.companies)
    IN  /\ threads[t].pc = "list"
        /\ companies' = r.companies
        /\ lastOp' = Other
        /\ IF r.raised
           THEN /\ ingestion_progress' =
                       [ingestion_progress EXCEPT !.phase = "Failed",
                                                  !.last_error = "stock list"]
                /\ threads' = [threads EXCEPT ![t].pc = "finally"]
           ELSE /\ ingestion_progress' =
                       [ingestion_progress EXCEPT !.total = Len(q),
                                                  !.phase = "Ingesting company data"]
                /\ threads' = [threads EXCEPT ![t].queue = q, ![t].idx = 1,
                                              ![t].pc = IF Len(q) >= 1 THEN "loop"
                                                        ELSE "complete"]
        /\ UNCHANGED <<income_statements, key_metrics, screener_data, clock, pc, queue, idx,
                       outcome, in_income, in_metrics, in_stocks, in_quotes, out, done,
                       session>>

\* Lines 416-433: the body of the loop for the next company of the thread.
ThreadCompany(t, p) ==
    LET th == threads[t]
        cid == th.queue[th.idx]
        i == IngestCompanyDataResult(companies, income_statements, key_metrics, cid,
                                     p.profile, p.income, p.metrics)
        g == ComputeRevenueGrowthResult(i.income_statements, cid)
        c == ComputeScreenerDataResult(i.companies, g, i.key_metrics, screener_data,
                                       cid, clock)
        raised == i.raised \/ c.kind = "raised"
        next == IF th.idx + 1 <= Len(th.queue) THEN "loop" ELSE "complete"
    IN  /\ th.pc = "loop"
        /\ companies' = i.companies
        /\ income_statements' = IF i.raised THEN income_statements ELSE c.income_statements
        /\ key_metrics' = IF i.raised THEN key_metrics ELSE c.key_metrics
        /\ screener_data' = IF i.raised THEN screener_data ELSE c.screener_data
        /\ ingestion_progress' =
               [ingestion_progress EXCEPT
                    !.current = th.idx,
                    !.current_ticker = CompanyById(cid).ticker,
                    !.errors = IF raised THEN @ + 1 ELSE @,
                    !.last_error = IF raised THEN CompanyById(cid).ticker ELSE @]
        /\ threads' = [threads EXCEPT ![t].idx = th.idx + 1,
                                      ![t].raised = IF raised THEN @ + 1 ELSE @,
                                      ![t].pc = next]
        /\ lastOp' = Other
        /\ UNCHANGED <<clock, pc, queue, idx, outcome, in_income, in_metrics, in_stocks,
                       in_quotes, out, done, session>>

\* Lines 435-436.
ThreadComplete(t) ==
    /\ threads[t].pc = "complete"
    /\ ingestion_progress' = [ingestion_progress EXCEPT !.phase = "Complete"]
    /\ threads' = [threads EXCEPT ![t].pc = "finally"]
    /\ lastOp' = Other
    /\ UNCHANGED <<companies, income_statements, key_metrics, screener_data, clock, pc,
                   queue, idx, outcome, in_income, in_metrics, in_stocks, in_quotes, out,
                   done, session>>

\* Lines 443-445.
ThreadFinally(t) ==
    /\ threads[t].pc = "finally"
    /\ ingestion_progress' = [ingestion_progress EXCEPT !.running = FALSE]
    /\ threads' = [threads EXCEPT ![t].pc = "idle"]
    /\ lastOp' = Other
    /\ UNCHANGED <<companies, income_statements, key_metrics, screener_data, clock, pc,
                   queue, idx, outcome, in_income, in_metrics, in_stocks, in_quotes, out,
                   done, session>>

NextThreads ==
    \E t \in Threads :
        \/ ThreadCheck(t)
        \/ ThreadUpdate(t)
        \/ \E all_stocks \in StockLists : ThreadStockList(t, all_stocks)
        \/ /\ threads[t].pc = "loop"
           /\ \E p \in ThreadResponses : ThreadCompany(t, p)
        \/ ThreadComplete(t)
        \/ ThreadFinally(t)

SpecThreads == InitThreads /\ [][NextThreads]_vars

\* The thread has passed the test of line 393 and is in the loop over the companies.
Processing(t) == threads[t].pc = "loop"

\* C24: at most one full ingestion executes at a time: in no reachable state are
\* two invocations of run_full_ingestion, from the scheduler and from a thread of
\* POST /api/admin/ingest, both past the test of running and processing companies.
C24_OneIngestionAsClaimed ==
    \A t1, t2 \in Threads : Processing(t1) /\ Processing(t2) => t1 = t2

\* A step of thread t from position a to position b of run_full_ingestion.
ThreadStep(t, a, b) == threads[t].pc = a /\ threads'[t].pc = b

(***************************************************************************)
(* C25 as claimed, the part that is about single states and steps: running *)
(* is True in every state in which an invocation is processing companies;  *)
(* when an invocation sets running back to False (the finally clause),     *)
(* phase is "Complete" or a "Failed: ..." text; an invocation skipped      *)
(* because running was True changes no progress field.                    *)
(***************************************************************************)
C25_RunningWhileProcessingAsClaimed ==
    [][ /\ \A t \in Threads : Processing(t)' => ingestion_progress'.running
        /\ \A t \in Threads :
               ThreadStep(t, "finally", "idle") =>
                   /\ ~ingestion_progress'.running
                   /\ ingestion_progress'.phase \in {"Complete", "Failed"}
        /\ lastOp' = Skipped => ingestion_progress' = ingestion_progress ]_vars

\* The company list of the pass has been loaded (line 412 has run).
ListLoaded(progress) == progress.phase \in {"Ingesting company data", "Complete"}

(***************************************************************************)
(* C26 as claimed: in every state get_progress can return once the company *)
(* list has been loaded, 0 <= errors <= current <= total; a step of the    *)
(* loop over the companies never decreases current; and when a pass ends   *)
(* (line 435), errors is the number of companies of that pass whose        *)
(* processing raised.                                                      *)
(***************************************************************************)
C26_ProgressCountersAsClaimed ==
    [][ /\ ListLoaded(ingestion_progress') =>
               /\ 0 <= ingestion_progress'.errors
               /\ ingestion_progress'.errors <= ingestion_progress'.current
               /\ ingestion_progress'.current <= ingestion_progress'.total
        /\ \A t \in Threads :
               /\ Processing(t) /\ threads'[t] # threads[t] =>
                      ingestion_progress'.current >= ingestion_progress.current
               /\ ThreadStep(t, "complete", "finally") =>
                      ingestion_progress'.errors = threads[t].raised ]_vars

(***************************************************************************)
(* SpecQuotes: one run_incremental_update on a database that holds two     *)
(* companies, the two stored periods of the first and, or not, the         *)
(* snapshot the composer wrote for it.  The provider's answer is any       *)
(* sequence of at most MaxQuotes quotes, each for one of the two companies *)
(* or for an unknown symbol, each of its three keys absent, null or 5.     *)
(***************************************************************************)
MaxQuotes == 2

QuoteValues == {MISSING, NULL, Num(5)}

QuoteItems ==
    { Quote(s, m, p, e) : s \in {"A", "B", "Z"}, m \in QuoteValues,
                          p \in QuoteValues, e \in QuoteValues }

OtherCompany == Company(2, Stock("B", "NASDAQ", ABSENT, ABSENT, "Nasdaq"))

\* The snapshot compute_screener_data writes from the two stored periods.
StoredSnapshot ==
    ComputeScreenerDataResult({TheCompany, OtherCompany}, StoredIncome, StoredMetrics, {},
                              TheCompany.id, 1).screener_data

InitQuotes ==
    /\ companies = {TheCompany, OtherCompany}
    /\ income_statements = StoredIncome
    /\ key_metrics = StoredMetrics
    /\ screener_data \in {{}, StoredSnapshot}
    /\ \E n \in 0..MaxQuotes : \E items \in [1..n -> QuoteItems] : in_quotes = items
    /\ ingestion_progress = NoProgress
    /\ clock = 2
    /\ pc = "idle"
    /\ queue = <<>>
    /\ idx = 0
    /\ lastOp = NoOp
    /\ outcome = <<>>
    /\ in_income = <<>>
    /\ in_metrics = <<>>
    /\ in_stocks = <<>>
    /\ threads = NoThreads
    /\ out = NoOut
    /\ done = FALSE
    /\ session = NoSession

\* run_incremental_update(), the provider returning in_quotes.
QuotesIsolated ==
    /\ ~done
    /\ screener_data' = ApplyQuotes(in_quotes, {c \in companies : c.is_active}, screener_data)
    /\ lastOp' = Quotes
    /\ done' = TRUE
    /\ UNCHANGED <<companies, income_statements, key_metrics, ingestion_progress, clock,
                   pc, queue, idx, outcome, in_income, in_metrics, in_stocks, in_quotes,
                   threads, out, session>>

NextQuotes == QuotesIsolated

SpecQuotes == InitQuotes /\ [][NextQuotes]_vars

\* quote key :> the snapshot field run_incremental_update assigns from it
QuoteKeys == [marketCap |-> "market_cap", price |-> "last_price", pe |-> "pe_ratio"]

\* The value of field key of the last quote for a ticker that has the key, or
\* old when no quote for the ticker has it.
Quoted(quotes, ticker, key, old) ==
    LET having == {i \in 1..Len(quotes) :
                       quotes[i].symbol = ticker /\ quotes[i][key] # MISSING}
    IN  IF having = {} THEN old
        ELSE quotes[CHOOSE i \in having : \A j \in having : j <= i][key]

=============================================================================
